---------------------------- MODULE Spec2Model ----------------------------
(***************************************************************************)
(* Budget tracker: the REST routes /api/income and /api/expenses over the  *)
(* relational store, and the client ledger page that talks to them.        *)
(*                                                                         *)
(* JavaScript values are encoded with one TLA+ type per field:             *)
(*   - a string field is a TLA+ string; null/undefined is the string Null; *)
(*   - a number is a record [t, v]: Num(n) a finite number, NaN, or        *)
(*     NullNum (null/undefined where a number is expected), StrNum a       *)
(*     non-numeric string where a number is expected.                      *)
(* The store is reliable: a statement fails only on a constraint of the    *)
(* schema (PRIMARY KEY, NOT NULL, DECIMAL).                                *)
(***************************************************************************)
EXTENDS Integers, Sequences, FiniteSets, TLC

(***************************************************************************)
(* Value encodings                                                         *)
(***************************************************************************)
Null == "<null>"

Num(n) == [t |-> "num", v |-> n]
NaN == [t |-> "nan", v |-> 0]
NullNum == [t |-> "null", v |-> 0]
StrNum == [t |-> "str", v |-> 0]

IsNum(a) == a.t = "num"

\* JS truthiness of a string-or-null value: null, undefined and "" are falsy.
Truthy(s) == s # Null /\ s # ""

\* a || b on string-or-null values
OrElse(a, b) == IF Truthy(a) THEN a ELSE b

Users == {"u1", "u2"}
NoUser == "nobody"

\* Sequence helpers
RemoveAt(s, i) == [k \in 1..(Len(s) - 1) |-> IF k < i THEN s[k] ELSE s[k + 1]]
Range(s) == {s[k] : k \in 1..Len(s)}

(***************************************************************************)
(* The store: tables income and expenses.  A table is the sequence of its  *)
(* rows in created_at order.                                               *)
(***************************************************************************)

\* String order of the date column as the store collates it.
DateRank(d) == CASE d = "" -> 0
                 [] d = "d1" -> 1
                 [] d = "d2" -> 2
                 [] OTHER -> 3

\* ORDER BY date DESC, created_at DESC over rows given in created_at order
\* (row j comes before row k when its date is later, or the same and it
\* was created later)
OrderByDateDesc(s) ==
  LET Ordered(rows) ==
        LET Before(j, k) ==
              \/ DateRank(rows[j].date) > DateRank(rows[k].date)
              \/ (DateRank(rows[j].date) = DateRank(rows[k].date) /\ j > k)
            at(p) == CHOOSE k \in 1..Len(rows) :
                       Cardinality({j \in 1..Len(rows) : Before(j, k)}) = p - 1
        IN [p \in 1..Len(rows) |-> rows[at(p)]]
  IN CHOOSE o \in {<<>> \o Ordered(rows) : rows \in {s}} : TRUE

\* income: id PRIMARY KEY; user_id, date, description, amount NOT NULL;
\* amount DECIMAL(15,2)
IncomeRowOk(tbl, row) ==
  /\ row.id # Null /\ row.user_id # Null /\ row.date # Null
  /\ row.description # Null
  /\ IsNum(row.amount)

\* expenses: as income, with category NOT NULL
ExpenseRowOk(tbl, row) ==
  /\ row.id # Null /\ row.user_id # Null /\ row.date # Null
  /\ row.category # Null /\ row.description # Null
  /\ IsNum(row.amount)

\* a parameter bound to a DECIMAL column: a number or NULL binds, any other
\* text fails the statement whatever rows it matches
BindsAsDecimal(a) == a.t \in {"num", "null"}

HasId(tbl, id) == \E k \in 1..Len(tbl) : tbl[k].id = id

\* query(): the result of one statement: ok = FALSE when it throws.
QueryResult(ok, rows, tbl) == [ok |-> ok, rows |-> rows, tbl |-> tbl]

(***************************************************************************)
(* Route handlers.  A handler maps the session, the request and the table  *)
(* to the response, the table after it, and the number of statements it    *)
(* issued against the store.                                               *)
(***************************************************************************)
getUserId(session) == IF session = NoUser THEN Null ELSE session

Response(status, rows, error, tbl, q) ==
  [status |-> status, rows |-> rows, error |-> error, tbl |-> tbl, q |-> q]

Unauthorized(tbl) == Response(401, <<>>, "Unauthorized", tbl, 0)


MatchesIdUser(row, id, userId) == row.id = id /\ row.user_id = userId

\* ---- /api/income --------------------------------------------------------

IncomeSelect(tbl, userId) ==
  LET Own(r) == r.user_id = userId
  IN QueryResult(TRUE, OrderByDateDesc(SelectSeq(tbl, Own)), tbl)

IncomeInsert(tbl, row) ==
  IF IncomeRowOk(tbl, row) /\ ~HasId(tbl, row.id)
  THEN QueryResult(TRUE, <<row>>, Append(tbl, row))
  ELSE QueryResult(FALSE, <<>>, tbl)

\* mutant: UPDATE ... WHERE id = $1, without the user_id condition
IncomeUpdateAnyUser(tbl, id, userId, date, desc, amount, notes) ==
  LET New(r) == [r EXCEPT !.date = date, !.description = desc,
                          !.amount = amount, !.notes = notes]
      Hit(r) == r.id = id
      hits == SelectSeq(tbl, Hit)
  IN IF ~BindsAsDecimal(amount) THEN QueryResult(FALSE, <<>>, tbl)
     ELSE IF hits = <<>> THEN QueryResult(TRUE, <<>>, tbl)
     ELSE IF \E k \in 1..Len(hits) : ~IncomeRowOk(tbl, New(hits[k]))
          THEN QueryResult(FALSE, <<>>, tbl)
          ELSE QueryResult(TRUE,
                 [k \in 1..Len(hits) |-> New(hits[k])],
                 [k \in 1..Len(tbl) |-> IF Hit(tbl[k]) THEN New(tbl[k]) ELSE tbl[k]])

IncomeUpdate(tbl, id, userId, date, desc, amount, notes) ==
  LET New(r) == [r EXCEPT !.date = date, !.description = desc,
                          !.amount = amount, !.notes = notes]
      Hit(r) == MatchesIdUser(r, id, userId)
      hits == SelectSeq(tbl, Hit)
  IN IF ~BindsAsDecimal(amount) THEN QueryResult(FALSE, <<>>, tbl)
     ELSE IF hits = <<>> THEN QueryResult(TRUE, <<>>, tbl)
     ELSE IF \E k \in 1..Len(hits) : ~IncomeRowOk(tbl, New(hits[k]))
          THEN QueryResult(FALSE, <<>>, tbl)
          ELSE QueryResult(TRUE,
                 [k \in 1..Len(hits) |-> New(hits[k])],
                 [k \in 1..Len(tbl) |-> IF Hit(tbl[k]) THEN New(tbl[k]) ELSE tbl[k]])

IncomeDeleteWhere(tbl, id, userId) ==
  LET Hit(r) == MatchesIdUser(r, id, userId)
      Keep(r) == ~Hit(r)
  IN QueryResult(TRUE, SelectSeq(tbl, Hit), SelectSeq(tbl, Keep))

\* mutant: GET without the session check
IncomeGETNoAuth(session, tbl) ==
  LET result == IncomeSelect(tbl, getUserId(session))
  IN Response(200, result.rows, "", tbl, 1)

IncomeGET(session, tbl) ==
  LET userId == getUserId(session)
      result == IncomeSelect(tbl, userId)
  IN IF userId = Null THEN Unauthorized(tbl)
     ELSE Response(200, result.rows, "", tbl, 1)

IncomePOST(session, body, tbl) ==
  LET userId == getUserId(session)
      row == [id |-> body.id, user_id |-> userId, date |-> body.date,
              description |-> body.desc, amount |-> body.amount,
              notes |-> OrElse(body.notes, Null)]
      result == IncomeInsert(tbl, row)
  IN IF userId = Null THEN Unauthorized(tbl)
     ELSE IF ~body.json THEN Response(500, <<>>, "Failed to create income", tbl, 0)
     ELSE IF ~result.ok THEN Response(500, <<>>, "Failed to create income", tbl, 1)
     ELSE Response(200, result.rows, "", result.tbl, 1)

\* mutant: the number of updated rows is not looked at
IncomePUTAnyRowCount(session, body, tbl) ==
  LET userId == getUserId(session)
      result == IncomeUpdate(tbl, body.id, userId, body.date, body.desc,
                             body.amount, OrElse(body.notes, Null))
  IN IF userId = Null THEN Unauthorized(tbl)
     ELSE IF ~body.json THEN Response(500, <<>>, "Failed to update income", tbl, 0)
     ELSE IF ~result.ok THEN Response(500, <<>>, "Failed to update income", tbl, 1)
     ELSE Response(200, result.rows, "", result.tbl, 1)

IncomePUT(session, body, tbl) ==
  LET userId == getUserId(session)
      result == IncomeUpdate(tbl, body.id, userId, body.date, body.desc,
                             body.amount, OrElse(body.notes, Null))
  IN IF userId = Null THEN Unauthorized(tbl)
     ELSE IF ~body.json THEN Response(500, <<>>, "Failed to update income", tbl, 0)
     ELSE IF ~result.ok THEN Response(500, <<>>, "Failed to update income", tbl, 1)
     ELSE IF Len(result.rows) = 0 THEN Response(404, <<>>, "Income not found", result.tbl, 1)
     ELSE Response(200, result.rows, "", result.tbl, 1)

IncomeDELETE(session, id, tbl) ==
  LET userId == getUserId(session)
      result == IncomeDeleteWhere(tbl, id, userId)
  IN IF userId = Null THEN Unauthorized(tbl)
     ELSE IF ~Truthy(id) THEN Response(400, <<>>, "ID is required", tbl, 0)
     ELSE IF Len(result.rows) = 0 THEN Response(404, <<>>, "Income not found", result.tbl, 1)
     ELSE Response(200, <<>>, "", result.tbl, 1)

\* ---- /api/expenses ------------------------------------------------------

ExpensesSelect(tbl, userId) ==
  LET Own(r) == r.user_id = userId
  IN QueryResult(TRUE, OrderByDateDesc(SelectSeq(tbl, Own)), tbl)

ExpensesInsert(tbl, row) ==
  IF ExpenseRowOk(tbl, row) /\ ~HasId(tbl, row.id)
  THEN QueryResult(TRUE, <<row>>, Append(tbl, row))
  ELSE QueryResult(FALSE, <<>>, tbl)

ExpensesUpdate(tbl, id, userId, date, category, desc, amount, notes) ==
  LET New(r) == [r EXCEPT !.date = date, !.category = category,
                          !.description = desc, !.amount = amount,
                          !.notes = notes]
      Hit(r) == MatchesIdUser(r, id, userId)
      hits == SelectSeq(tbl, Hit)
  IN IF ~BindsAsDecimal(amount) THEN QueryResult(FALSE, <<>>, tbl)
     ELSE IF hits = <<>> THEN QueryResult(TRUE, <<>>, tbl)
     ELSE IF \E k \in 1..Len(hits) : ~ExpenseRowOk(tbl, New(hits[k]))
          THEN QueryResult(FALSE, <<>>, tbl)
          ELSE QueryResult(TRUE,
                 [k \in 1..Len(hits) |-> New(hits[k])],
                 [k \in 1..Len(tbl) |-> IF Hit(tbl[k]) THEN New(tbl[k]) ELSE tbl[k]])

\* mutant: DELETE ... WHERE id = $1, without the user_id condition
ExpensesDeleteWhereAnyUser(tbl, id, userId) ==
  LET Hit(r) == r.id = id
      Keep(r) == ~Hit(r)
  IN QueryResult(TRUE, SelectSeq(tbl, Hit), SelectSeq(tbl, Keep))

ExpensesDeleteWhere(tbl, id, userId) ==
  LET Hit(r) == MatchesIdUser(r, id, userId)
      Keep(r) == ~Hit(r)
  IN QueryResult(TRUE, SelectSeq(tbl, Hit), SelectSeq(tbl, Keep))

ExpensesGET(session, tbl) ==
  LET userId == getUserId(session)
      result == ExpensesSelect(tbl, userId)
  IN IF userId = Null THEN Unauthorized(tbl)
     ELSE Response(200, result.rows, "", tbl, 1)

ExpensesPOST(session, body, tbl) ==
  LET userId == getUserId(session)
      row == [id |-> body.id, user_id |-> userId, date |-> body.date,
              category |-> body.category, description |-> body.desc,
              amount |-> body.amount, notes |-> OrElse(body.notes, Null)]
      result == ExpensesInsert(tbl, row)
  IN IF userId = Null THEN Unauthorized(tbl)
     ELSE IF ~body.json THEN Response(500, <<>>, "Failed to create expense", tbl, 0)
     ELSE IF ~result.ok THEN Response(500, <<>>, "Failed to create expense", tbl, 1)
     ELSE Response(200, result.rows, "", result.tbl, 1)

ExpensesPUT(session, body, tbl) ==
  LET userId == getUserId(session)
      result == ExpensesUpdate(tbl, body.id, userId, body.date, body.category,
                               body.desc, body.amount, OrElse(body.notes, Null))
  IN IF userId = Null THEN Unauthorized(tbl)
     ELSE IF ~body.json THEN Response(500, <<>>, "Failed to update expense", tbl, 0)
     ELSE IF ~result.ok THEN Response(500, <<>>, "Failed to update expense", tbl, 1)
     ELSE IF Len(result.rows) = 0 THEN Response(404, <<>>, "Expense not found", result.tbl, 1)
     ELSE Response(200, result.rows, "", result.tbl, 1)

ExpensesDELETE(session, id, tbl) ==
  LET userId == getUserId(session)
      result == ExpensesDeleteWhere(tbl, id, userId)
  IN IF userId = Null THEN Unauthorized(tbl)
     ELSE IF ~Truthy(id) THEN Response(400, <<>>, "ID is required", tbl, 0)
     ELSE IF Len(result.rows) = 0 THEN Response(404, <<>>, "Expense not found", result.tbl, 1)
     ELSE Response(200, <<>>, "", result.tbl, 1)


(***************************************************************************)
(* State                                                                   *)
(***************************************************************************)
VARIABLES
  incomeTbl,        \* store: table income
  expensesTbl,      \* store: table expenses
  resp,             \* the request a route handled in this step and its response
  income,           \* page state (useState)
  expenses,
  categories,
  incomeForm,
  expenseForm,
  isLoadingData,
  isAddingIncome,
  isAddingExpense,
  deletingId,
  load,             \* loadData: its three fetches
  addInc,           \* onAddIncome: its POST
  addExp,           \* onAddExpense: its POST
  dels,             \* onDelete: the DELETE requests in flight
  nextUid,          \* number of ids uid() has handed out, plus one
  ev,               \* the handler that ran in this step, the file it read,
                    \* the toast it emitted and the confirmation it asked
  mounted,          \* the page component is mounted
  rate,             \* page state: KRW per USD
  storage,          \* localStorage: the saved rate and its fetch timestamp
  now,              \* Date.now() as last read
  refresh,          \* refreshRate: its fetch
  totals,           \* useMemo: the totals
  breakdown,        \* useMemo: byCat
  conv              \* the last call of krwToUsd outside a render

storeVars == <<incomeTbl, expensesTbl>>
pageVars == <<income, expenses, categories, incomeForm, expenseForm,
              isLoadingData, isAddingIncome, isAddingExpense, deletingId>>
callVars == <<load, addInc, addExp, dels>>
rateVars == <<rate, storage, now, refresh>>
memoVars == <<totals, breakdown>>
clientVars == <<pageVars, callVars, nextUid, ev, mounted, rateVars, memoVars,
                conv>>
vars == <<storeVars, resp, clientVars>>

\* a request without a body
NoBody == [json |-> FALSE]

NoResp == [route |-> "", method |-> "", session |-> NoUser, arg |-> Null,
           body |-> NoBody, status |-> 0, rows |-> <<>>, q |-> 0]

\* arg: the id the request names (in its query or in its body)
Handled(route, method, session, arg, r) ==
  [route |-> route, method |-> method, session |-> session, arg |-> arg,
   body |-> NoBody, status |-> r.status, rows |-> r.rows, q |-> r.q]

HandledBody(route, method, session, body, r) ==
  [Handled(route, method, session, body.id, r) EXCEPT !.body = body]

(***************************************************************************)
(* The ledger page: values and pure helpers                                *)
(***************************************************************************)
\* Bounds of the model
MaxUid == 3
MaxDeletes == 1

\* the signed-in user of the page
Me == "u1"

DEFAULT_CATEGORIES ==
  <<"Room and Utility", "Daily Expense", "Borrow Others", "Food & Drinks",
    "Transportation", "Entertainment", "Shopping", "Other">>

\* uid(): the k-th id handed out; ids are taken to be fresh
uid(k) == "id-" \o ToString(k)

\* String.prototype.trim on the strings the model enters
Trim(s) == CASE s = " " -> ""
             [] s = " Gym " -> "Gym"
             [] OTHER -> s

\* String.prototype.toLowerCase on the category names of the model
ToLowerCase(s) == CASE s = "Other" -> "other"
                    [] s = "Gym" -> "gym"
                    [] s = "GYM" -> "gym"
                    [] s = "Room and Utility" -> "room and utility"
                    [] s = "Daily Expense" -> "daily expense"
                    [] s = "Borrow Others" -> "borrow others"
                    [] s = "Food & Drinks" -> "food & drinks"
                    [] s = "Transportation" -> "transportation"
                    [] s = "Entertainment" -> "entertainment"
                    [] s = "Shopping" -> "shopping"
                    [] OTHER -> s

\* Number(s) of the value of an <input type="number">; numbers are in tenths
FormNumber(s) == CASE s = "" -> Num(0)
                   [] s = "-1" -> Num(-10)
                   [] s = "0.4" -> Num(4)
                   [] s = "1.5" -> Num(15)
                   [] s = "3" -> Num(30)
                   [] OTHER -> NaN

\* Math.round: to the nearest integer, halves up
MathRound(a) == IF IsNum(a) THEN Num(((a.v + 5) \div 10) * 10) ELSE a

\* amount > 0 (false for NaN)
GtZero(a) == IsNum(a) /\ a.v > 0

IsInteger(a) == IsNum(a) /\ a.v % 10 = 0

\* JS truthiness of a number-or-null value: null, 0, NaN are falsy; a
\* non-numeric string standing for a number is a non-empty string
TruthyNum(a) == a.t = "str" \/ (a.t = "num" /\ a.v # 0)

\* Infinity and -Infinity
Inf == [t |-> "inf", v |-> 1]
NegInf == [t |-> "inf", v |-> -1]

\* Number(x) of a JSON value
NumberOf(a) == CASE a.t \in {"num", "inf", "ratio"} -> a
                 [] a.t = "null" -> Num(0)
                 [] OTHER -> NaN

\* Math.max(0, x): NaN stays NaN
MathMax0(a) == CASE IsNum(a) -> (IF a.v < 0 THEN Num(0) ELSE a)
                 [] a = NegInf -> Num(0)
                 [] OTHER -> a

Abs(n) == IF n < 0 THEN -n ELSE n

GCD(a, b) ==
  LET gcd[x \in Nat, y \in Nat] == IF y = 0 THEN x ELSE gcd[y, x % y]
  IN gcd[a, b]

\* the number n / d, d > 0, kept exact: in tenths when it is a whole
\* number of tenths, and else as a fraction in lowest terms
Ratio(n, d) ==
  LET g == GCD(Abs(n), d)
  IN IF (10 * n) % d = 0 THEN Num((10 * n) \div d)
     ELSE [t |-> "ratio", n |-> n \div g, d |-> d \div g]

\* Number.isFinite
IsFinite(a) == a.t \in {"num", "ratio"}

\* the sign of a number: -1, 0 or 1 (0 for NaN)
Sign(a) == CASE a.t = "ratio" -> (IF a.n > 0 THEN 1 ELSE IF a.n < 0 THEN -1 ELSE 0)
             [] a.t \in {"num", "inf"} -> (IF a.v > 0 THEN 1 ELSE IF a.v < 0 THEN -1 ELSE 0)
             [] OTHER -> 0

\* a + b of two amounts
Plus(a, b) == IF IsNum(a) /\ IsNum(b) THEN Num(a.v + b.v) ELSE NaN

\* a - b
Minus(a, b) == IF IsNum(a) /\ IsNum(b) THEN Num(a.v - b.v) ELSE NaN

\* a / b of two numbers in tenths, as IEEE division decides the special
\* cases
Div(a, b) ==
  CASE a.t = "nan" \/ b.t = "nan" -> NaN
    [] b.t = "inf" -> IF a.t = "inf" THEN NaN ELSE Num(0)
    [] a.t = "inf" -> IF (Sign(b) >= 0) = (Sign(a) > 0) THEN Inf ELSE NegInf
    [] b.v = 0 -> IF a.v = 0 THEN NaN ELSE IF a.v > 0 THEN Inf ELSE NegInf
    [] OTHER -> IF b.v > 0 THEN Ratio(a.v, b.v) ELSE Ratio(-a.v, -b.v)


\* 1 / u of a positive number u
OneOver(u) == IF u.t = "ratio" THEN Ratio(u.d, u.n) ELSE Ratio(10, u.v)

\* a > b (false for NaN)
Gt(a, b) == IsNum(a) /\ IsNum(b) /\ a.v > b.v

\* a + b of two finite numbers, exact
PlusExact(a, b) ==
  LET an == IF a.t = "ratio" THEN a.n ELSE a.v
      ad == IF a.t = "ratio" THEN a.d ELSE 10
      bn == IF b.t = "ratio" THEN b.n ELSE b.v
      bd == IF b.t = "ratio" THEN b.d ELSE 10
  IN Ratio(an * bd + bn * ad, ad * bd)

\* q * 100
Times100(q) == CASE q.t = "ratio" -> Ratio(q.n * 100, q.d)
                 [] q.t = "num" -> Num(q.v * 100)
                 [] OTHER -> q

\* mutant: the rate is not checked
krwToUsdUnchecked(krw, r) == Div(NumberOf(krw), NumberOf(r))

\* r is the argument rate
krwToUsd(krw, r) ==
  LET normalizedRate == NumberOf(r)
  IN IF ~IsFinite(normalizedRate) \/ Sign(normalizedRate) <= 0 THEN Num(0)
     ELSE Div(NumberOf(krw), normalizedRate)

\* JSON.stringify of a number: NaN becomes null
JsonNum(a) == IF IsNum(a) THEN a ELSE NullNum

\* Array.from(new Set(s)): first occurrences, in order
Dedup(s) ==
  LET FirstsOf(seq) ==
        LET first == {k \in 1..Len(seq) : \A j \in 1..(k - 1) : seq[j] # seq[k]}
            at(i) == CHOOSE k \in first : Cardinality({j \in first : j <= k}) = i
        IN [i \in 1..Cardinality(first) |-> seq[at(i)]]
  IN CHOOSE d \in {<<>> \o FirstsOf(seq) : seq \in {s}} : TRUE

\* toast(message, type): a message, its variable part, its type
Toast(message, detail, type) ==
  [message |-> message, detail |-> detail, type |-> type]
NoToast == Toast("", "", "")

NoConfirm == ""
ConfirmDelete == "Delete this record? This cannot be undone."
ConfirmImport == "Import will REPLACE your current data. Continue?"
ConfirmClear == "Clear ALL data (income + expenses)? This cannot be undone."

\* Rows of the page
IncomeRow(id, date, desc, amount, notes) ==
  [id |-> id, date |-> date, desc |-> desc, amount |-> amount, notes |-> notes]
ExpenseRow(id, date, category, desc, amount, notes) ==
  [id |-> id, date |-> date, category |-> category, desc |-> desc,
   amount |-> amount, notes |-> notes]
NoRow == ExpenseRow(Null, Null, Null, Null, NullNum, Null)

\* JSON.stringify(row) as the body of a POST
IncomeBody(row) ==
  [json |-> TRUE, id |-> row.id, date |-> row.date, desc |-> row.desc,
   amount |-> JsonNum(row.amount), notes |-> row.notes]
ExpenseBody(row) ==
  [json |-> TRUE, id |-> row.id, date |-> row.date, category |-> row.category,
   desc |-> row.desc, amount |-> JsonNum(row.amount), notes |-> row.notes]

\* A fetch: pending, answered (status, rows, error) or rejected
Fetch(st, status, rows, error) ==
  [st |-> st, status |-> status, rows |-> rows, error |-> error]
Pending == Fetch("pending", 0, <<>>, "")
Rejected == Fetch("rejected", 0, <<>>, "Failed to fetch")
Answered(r) == Fetch("answered", r.status, r.rows, r.error)
ResOk(f) == f.st = "answered" /\ f.status >= 200 /\ f.status <= 299

\* A POST or DELETE of the page: idle, or its row/id and its fetch
Call(busy, row, type, fetch) ==
  [busy |-> busy, row |-> row, type |-> type, fetch |-> fetch]
Idle == Call(FALSE, NoRow, "", Pending)

(***************************************************************************)
(* Export and import documents.  A JSON value that should be an array is   *)
(* List(items), Missing, or NotAList (any other value).                    *)
(***************************************************************************)
List(items) == [kind |-> "list", items |-> items]
Missing == [kind |-> "missing", items |-> <<>>]
NotAList == [kind |-> "other", items |-> <<>>]
IsArray(x) == x.kind = "list"

\* json: the text parses; obj: the parsed value is truthy
Doc(json, obj, inc, exp, cats) ==
  [json |-> json, obj |-> obj, income |-> inc, expenses |-> exp,
   categories |-> cats]
NoDoc == Doc(FALSE, FALSE, Missing, Missing, Missing)

\* JSON.stringify(data) of exportJSON, as JSON.parse reads it back: the
\* fields import reads (version, rate and exportedAt are not read)
ExportedIncome(r) ==
  IncomeRow(r.id, r.date, r.desc, JsonNum(r.amount), r.notes)
ExportedExpense(r) ==
  ExpenseRow(r.id, r.date, r.category, r.desc, JsonNum(r.amount), r.notes)
ExportDoc(inc, exp, cats) ==
  Doc(TRUE, TRUE,
      List([k \in 1..Len(inc) |-> ExportedIncome(inc[k])]),
      List([k \in 1..Len(exp) |-> ExportedExpense(exp[k])]),
      List(cats))

\* Math.max(0, Number(n.amount || 0))
ImportedAmount(a) ==
  MathMax0(NumberOf(IF TruthyNum(a) THEN a ELSE Num(0)))

\* obj.income.map(...): uid() hands out ids from the k-th on
RECURSIVE ImportIncome(_, _)
ImportIncome(items, k) ==
  IF items = <<>> THEN [rows |-> <<>>, k |-> k]
  ELSE LET n == Head(items)
           fresh == ~Truthy(n.id)
           row == IncomeRow(IF fresh THEN uid(k) ELSE n.id,
                            OrElse(n.date, ""), OrElse(n.desc, ""),
                            ImportedAmount(n.amount), OrElse(n.notes, ""))
           rest == ImportIncome(Tail(items), IF fresh THEN k + 1 ELSE k)
       IN [rows |-> <<row>> \o rest.rows, k |-> rest.k]

RECURSIVE ImportExpenses(_, _)
ImportExpenses(items, k) ==
  IF items = <<>> THEN [rows |-> <<>>, k |-> k]
  ELSE LET n == Head(items)
           fresh == ~Truthy(n.id)
           row == ExpenseRow(IF fresh THEN uid(k) ELSE n.id,
                             OrElse(n.date, ""), OrElse(n.category, "Other"),
                             OrElse(n.desc, ""),
                             ImportedAmount(n.amount), OrElse(n.notes, ""))
           rest == ImportExpenses(Tail(items), IF fresh THEN k + 1 ELSE k)
       IN [rows |-> <<row>> \o rest.rows, k |-> rest.k]

\* mutant: an empty list of categories is taken as it is
ImportCategoriesOfAnyList(cats) ==
  IF IsArray(cats) THEN cats.items ELSE DEFAULT_CATEGORIES

ImportCategories(cats) ==
  IF IsArray(cats) /\ Len(cats.items) # 0 THEN cats.items
  ELSE DEFAULT_CATEGORIES

CategoriesOf(exp) == [k \in 1..Len(exp) |-> exp[k].category]

\* no structural check
ValidDocUnchecked(doc) == TRUE

\* the structural check of onFilePicked
ValidDoc(doc) == doc.obj /\ IsArray(doc.income) /\ IsArray(doc.expenses)

\* loadData: rows of a GET response as rows of the page
LoadedIncome(r) ==
  IncomeRow(r.id, r.date, OrElse(r.description, Null), NumberOf(r.amount),
            OrElse(r.notes, ""))
LoadedExpense(r) ==
  ExpenseRow(r.id, r.date, r.category, OrElse(r.description, Null),
             NumberOf(r.amount), OrElse(r.notes, ""))
\* mutant: the merged list is not deduplicated
LoadedCategoriesNotDeduplicated(dbCats, exp) ==
  LET Named(c) == Truthy(c)
  IN DEFAULT_CATEGORIES \o dbCats \o SelectSeq(CategoriesOf(exp), Named)

LoadedCategories(dbCats, exp) ==
  LET Named(c) == Truthy(c)
  IN Dedup(DEFAULT_CATEGORIES \o dbCats \o SelectSeq(CategoriesOf(exp), Named))


(***************************************************************************)
(* Totals and the category breakdown.                                      *)
(***************************************************************************)
\* Number(r.amount || 0)
AmountOf(r) == NumberOf(IF TruthyNum(r.amount) THEN r.amount ELSE Num(0))

\* rows.reduce((s, r) => s + Number(r.amount || 0), 0)
RECURSIVE SumAmounts(_)
SumAmounts(rows) ==
  IF rows = <<>> THEN Num(0)
  ELSE Plus(SumAmounts(SubSeq(rows, 1, Len(rows) - 1)), AmountOf(rows[Len(rows)]))

\* the callback of the totals memo
\* (incomeKRW and expenseKRW are bound to their values, as the two consts
\* of the callback are: each sum is computed once)
Totals(inc, exp, r) ==
  CHOOSE t \in
    { LET remainingKRW == Minus(incomeKRW, expenseKRW)
      IN [incomeKRW |-> incomeKRW, expenseKRW |-> expenseKRW,
          remainingKRW |-> remainingKRW,
          incomeUSD |-> krwToUsd(incomeKRW, r),
          expenseUSD |-> krwToUsd(expenseKRW, r),
          remainingUSD |-> krwToUsd(remainingKRW, r)] :
        incomeKRW \in {SumAmounts(inc)}, expenseKRW \in {SumAmounts(exp)} } : TRUE

\* byCat[c] || 0
ByCatOr0(byCat, c) ==
  IF c \in DOMAIN byCat /\ TruthyNum(byCat[c]) THEN byCat[c] ELSE Num(0)

\* the callback of the breakdown memo: byCat, a map from category to amount
RECURSIVE ByCat(_)
ByCat(exp) ==
  IF exp = <<>> THEN [c \in {} |-> Num(0)]
  ELSE CHOOSE m \in
         { [c \in DOMAIN byCat \cup {e.category} |->
              IF c = e.category THEN Plus(ByCatOr0(byCat, c), AmountOf(e))
              ELSE byCat[c]] :
             byCat \in {ByCat(SubSeq(exp, 1, Len(exp) - 1))},
             e \in {exp[Len(exp)]} } : TRUE

\* a row of the breakdown table
BreakdownRow(cat, byCat, tot) ==
  LET amt == ByCatOr0(byCat, cat)
      pct == Times100(Div(amt, IF TruthyNum(tot.expenseKRW) THEN tot.expenseKRW
                               ELSE Num(10)))
  IN [cat |-> cat, amt |-> amt, pct |-> pct]

\* the rows of the breakdown table: one for each of categories
BreakdownTable(cats, byCat, tot) ==
  [k \in 1..Len(cats) |-> BreakdownRow(cats[k], byCat, tot)]

(***************************************************************************)
(* The exchange rate, its copy in localStorage and its refresh.            *)
(***************************************************************************)
\* a time in milliseconds
Ms(n) == Num(10 * n)
HourMs == 1000 * 60 * 60
RATE_MAX_AGE_MS == Ms(HourMs * 12)

\* useState(1388)
DefaultRate == Num(13880)

\* an item of localStorage: absent, or a text; String(a) is the text of a
\* number, and a text that is no number is JunkText
NoItem == [t |-> "none", of |-> NaN]
String(a) == [t |-> "text", of |-> a]
JunkText == [t |-> "text", of |-> NaN]

\* Number(localStorage.getItem(key)): null is 0, a text is what it parses to
NumberOfItem(i) == IF i = NoItem THEN Num(0) ELSE i.of

Storage(r, at) == [rate |-> r, fetchedAt |-> at]
NoStorage == Storage(NoItem, NoItem)

\* the effect that loads the saved rate: the rate after it
SavedRate(st, r) ==
  LET saved == st.rate
      parsed == NumberOfItem(saved)
  IN IF saved = NoItem THEN r
     ELSE IF ~IsFinite(parsed) \/ Sign(parsed) <= 0 THEN r
     ELSE parsed

\* mutant: every page load refreshes
ShouldRefreshAlways(st, t) == TRUE

\* the effect that fetches the rate: whether it calls refreshRate
ShouldRefresh(st, t) ==
  LET lastFetched == NumberOfItem(st.fetchedAt)
  IN ~IsFinite(lastFetched) \/ Gt(Minus(t, lastFetched), RATE_MAX_AGE_MS)

\* the answer of open.er-api.com: res.ok, whether the body parses, and
\* Number(data?.rates?.USD)
RateResponse(ok, json, usd) == [ok |-> ok, json |-> json, usd |-> usd]
NoRateResponse == RateResponse(FALSE, FALSE, NaN)

\* refreshRate: not called, or its fetch; attempts counts the fetches of
\* this page load
Refresh(st, res, attempts) == [st |-> st, res |-> res, attempts |-> attempts]
StartRefresh(st, t) ==
  IF ShouldRefresh(st, t) THEN Refresh("pending", NoRateResponse, 1)
  ELSE Refresh("none", NoRateResponse, 0)

\* refreshRate throws
RefreshFails(f) ==
  \/ f.st = "rejected"
  \/ ~f.res.ok
  \/ ~f.res.json
  \/ ~IsFinite(f.res.usd) \/ Sign(f.res.usd) <= 0

\* mutant: the effects are not cleaned up
CancelledNever(m) == FALSE

\* the flag the cleanup of an effect sets
Cancelled(m) == ~m

\* no call of krwToUsd recorded
NoConv == [krw |-> NaN, rate |-> NaN, usd |-> NaN]

(***************************************************************************)
(* Initial state: the page after its first authenticated render, with the  *)
(* effects of the mount run: today's date in both forms, loadData started. *)
(***************************************************************************)
Today == "d1"

\* what a step of the page did: the handler, the file it read or wrote, the
\* toast it emitted, the confirmation it asked and the user's answer
Ev(op, doc, toast, confirm, ok) ==
  [op |-> op, doc |-> doc, toast |-> toast, confirm |-> confirm, ok |-> ok]
Did(op) == Ev(op, NoDoc, NoToast, NoConfirm, FALSE)
Toasted(op, toast) == Ev(op, NoDoc, toast, NoConfirm, FALSE)

IncomeForm(date, desc, amount, notes) ==
  [date |-> date, desc |-> desc, amount |-> amount, notes |-> notes]
ExpenseForm(date, category, desc, amount, notes) ==
  [date |-> date, category |-> category, desc |-> desc, amount |-> amount,
   notes |-> notes]

\* loadData: its three requests, and whether it has resumed after them
Load(done, inc, exp, cats) ==
  [done |-> done, income |-> inc, expenses |-> exp, categories |-> cats]

\* the page after its mount, with st in localStorage at time t, the
\* requests l of loadData, and the amounts typed into the two forms
PageWith(st, t, l, incomeAmount, expenseAmount) ==
  /\ income = <<>>
  /\ expenses = <<>>
  /\ categories = DEFAULT_CATEGORIES
  /\ incomeForm = IncomeForm(Today, "", incomeAmount, "")
  /\ expenseForm = ExpenseForm(Today, "", "", expenseAmount, "")
  /\ isLoadingData = TRUE
  /\ isAddingIncome = FALSE
  /\ isAddingExpense = FALSE
  /\ deletingId = Null
  /\ load = l
  /\ addInc = Idle
  /\ addExp = Idle
  /\ dels = <<>>
  /\ nextUid = 1
  /\ ev = Did("mount")
  /\ mounted = TRUE
  /\ storage = st
  /\ now = t
  /\ rate = SavedRate(st, DefaultRate)
  /\ refresh = StartRefresh(st, t)
  /\ totals = Totals(<<>>, <<>>, SavedRate(st, DefaultRate))
  /\ breakdown = ByCat(<<>>)
  /\ conv = NoConv

\* the page after its mount, the forms untouched
PageLoad(st, t, l) == PageWith(st, t, l, "", "")

\* the clock when the page opens
Clock0 == Ms(50000000)

InitPage == PageLoad(NoStorage, Clock0, Load(FALSE, Pending, Pending, Pending))

(***************************************************************************)
(* SpecApi: the two routes under arbitrary callers.                        *)
(***************************************************************************)
ApiSessions == Users \cup {NoUser}
ApiIds == {"a", "b"}
ApiQueryIds == ApiIds \cup {Null, ""}
ApiBody(id, date, category, amount) ==
  [json |-> TRUE, id |-> id, date |-> date, category |-> category,
   desc |-> "x", amount |-> amount, notes |-> ""]

BadBody ==
  [json |-> FALSE, id |-> Null, date |-> Null, category |-> Null,
   desc |-> Null, amount |-> NullNum, notes |-> Null]

\* request bodies; the income route reads no category
ApiIncomeBodies ==
  {ApiBody("a", "d1", Null, Num(50)), ApiBody("a", "d2", Null, Num(-10)),
   ApiBody("b", "d1", Null, Num(50)), ApiBody("a", Null, Null, Num(50)),
   ApiBody(Null, "d1", Null, Num(50)), ApiBody("b", "d1", Null, StrNum),
   BadBody}

ApiExpenseBodies ==
  {ApiBody("a", "d1", "Food", Num(50)), ApiBody("a", "d2", "Food", Num(-10)),
   ApiBody("a", "d1", Null, Num(50)), ApiBody("b", "d1", "Food", StrNum),
   BadBody}

InitApi ==
  /\ incomeTbl = <<>>
  /\ expensesTbl = <<>>
  /\ resp = NoResp
  /\ InitPage

ApiIncomeGET ==
  \E session \in ApiSessions :
    LET r == IncomeGET(session, incomeTbl)
    IN /\ resp' = Handled("income", "GET", session, Null, r)
       /\ incomeTbl' = r.tbl
       /\ UNCHANGED <<expensesTbl, clientVars>>

ApiIncomePOST ==
  \E session \in ApiSessions, body \in ApiIncomeBodies :
    LET r == IncomePOST(session, body, incomeTbl)
    IN /\ resp' = HandledBody("income", "POST", session, body, r)
       /\ incomeTbl' = r.tbl
       /\ UNCHANGED <<expensesTbl, clientVars>>

ApiIncomePUT ==
  \E session \in ApiSessions, body \in ApiIncomeBodies :
    LET r == IncomePUT(session, body, incomeTbl)
    IN /\ resp' = HandledBody("income", "PUT", session, body, r)
       /\ incomeTbl' = r.tbl
       /\ UNCHANGED <<expensesTbl, clientVars>>

ApiIncomeDELETE ==
  \E session \in ApiSessions, id \in ApiQueryIds :
    LET r == IncomeDELETE(session, id, incomeTbl)
    IN /\ resp' = Handled("income", "DELETE", session, id, r)
       /\ incomeTbl' = r.tbl
       /\ UNCHANGED <<expensesTbl, clientVars>>

ApiExpensesGET ==
  \E session \in ApiSessions :
    LET r == ExpensesGET(session, expensesTbl)
    IN /\ resp' = Handled("expenses", "GET", session, Null, r)
       /\ expensesTbl' = r.tbl
       /\ UNCHANGED <<incomeTbl, clientVars>>

ApiExpensesPOST ==
  \E session \in ApiSessions, body \in ApiExpenseBodies :
    LET r == ExpensesPOST(session, body, expensesTbl)
    IN /\ resp' = HandledBody("expenses", "POST", session, body, r)
       /\ expensesTbl' = r.tbl
       /\ UNCHANGED <<incomeTbl, clientVars>>

ApiExpensesPUT ==
  \E session \in ApiSessions, body \in ApiExpenseBodies :
    LET r == ExpensesPUT(session, body, expensesTbl)
    IN /\ resp' = HandledBody("expenses", "PUT", session, body, r)
       /\ expensesTbl' = r.tbl
       /\ UNCHANGED <<incomeTbl, clientVars>>

ApiExpensesDELETE ==
  \E session \in ApiSessions, id \in ApiQueryIds :
    LET r == ExpensesDELETE(session, id, expensesTbl)
    IN /\ resp' = Handled("expenses", "DELETE", session, id, r)
       /\ expensesTbl' = r.tbl
       /\ UNCHANGED <<incomeTbl, clientVars>>

NextApi ==
  \/ ApiIncomeGET \/ ApiIncomePOST \/ ApiIncomePUT \/ ApiIncomeDELETE
  \/ ApiExpensesGET \/ ApiExpensesPOST \/ ApiExpensesPUT \/ ApiExpensesDELETE

SpecApi == InitApi /\ [][NextApi]_vars

(***************************************************************************)
(* Spec: the page of user Me against the two routes.                       *)
(***************************************************************************)
\* what the user types, picks and answers; the description and the notes
\* are free text no handler inspects, and are left blank
FormDates == {"", "d1"}
FormAmounts == {"", "0.4", "1.5"}
CategoryChoices == {"Other", "Gym"}
PromptInputs == {Null, " ", " Gym ", "other"}
Sessions == {Me, NoUser}

StoredIncome(id, user, date, amount) ==
  [id |-> id, user_id |-> user, date |-> date, description |-> "pay",
   amount |-> amount, notes |-> Null]
StoredExpense(id, user, date, category, amount) ==
  [id |-> id, user_id |-> user, date |-> date, category |-> category,
   description |-> "food", amount |-> amount, notes |-> Null]

\* the store when the page opens: empty, or rows of earlier sessions
EarlierStore ==
  << <<StoredIncome("a", Me, "d1", Num(500)), StoredIncome("z", "u2", "d1", Num(90))>>,
     <<StoredExpense("b", Me, "d1", "Gym", Num(200)),
       StoredExpense("c", Me, "d2", "Other", Num(100))>> >>

InitStores == {<< <<>>, <<>> >>, EarlierStore}

Init ==
  /\ \E st \in InitStores : incomeTbl = st[1] /\ expensesTbl = st[2]
  /\ resp = NoResp
  /\ InitPage

\* mutant: the totals memo does not depend on the expenses
TotalsDepsWithoutExpenses == <<income, rate>>

\* the dependencies of the totals memo
TotalsDeps == <<income, expenses, rate>>

\* mutant: the breakdown memo depends on the categories
BreakdownDepsCategories == <<categories>>

\* the dependencies of the breakdown memo
BreakdownDeps == <<expenses>>

\* the render that follows a step: each memo is recomputed when one of its
\* dependencies changed
Rendered ==
  /\ totals' = IF TotalsDeps' = TotalsDeps THEN totals
                ELSE Totals(income', expenses', rate')
  /\ breakdown' = IF BreakdownDeps' = BreakdownDeps THEN breakdown
                   ELSE ByCat(expenses')

\* a step that is not of the rate, the clock or the mount
RateIdle == UNCHANGED <<mounted, rateVars, conv>>

\* The handlers of the user run on the mounted page only.  A POST or a
\* DELETE that settles after the unmount calls setters of a component that
\* is gone, which React ignores: those steps are left out.  loadData and
\* refreshRate check their cancelled flag, and are modelled after the
\* unmount too.

\* ---- the forms ----------------------------------------------------------

setIncomeForm ==
  /\ mounted
  /\ \E f \in {[incomeForm EXCEPT !.date = d] : d \in FormDates}
              \cup {[incomeForm EXCEPT !.amount = a] : a \in FormAmounts} :
       /\ f # incomeForm
       /\ incomeForm' = f
  /\ ev' = Did("setIncomeForm")
  /\ resp' = NoResp
  /\ UNCHANGED <<storeVars, income, expenses, categories, expenseForm,
                 isLoadingData, isAddingIncome, isAddingExpense, deletingId,
                 callVars, nextUid>>
  /\ RateIdle
  /\ Rendered

setExpenseForm ==
  /\ mounted
  /\ \E f \in {[expenseForm EXCEPT !.date = d] : d \in FormDates}
              \cup {[expenseForm EXCEPT !.category = c] :
                      c \in {""} \cup (Range(categories) \cap CategoryChoices)}
              \cup {[expenseForm EXCEPT !.amount = a] : a \in FormAmounts} :
       /\ f # expenseForm
       /\ expenseForm' = f
  /\ ev' = Did("setExpenseForm")
  /\ resp' = NoResp
  /\ UNCHANGED <<storeVars, income, expenses, categories, incomeForm,
                 isLoadingData, isAddingIncome, isAddingExpense, deletingId,
                 callVars, nextUid>>
  /\ RateIdle
  /\ Rendered

\* ---- create -------------------------------------------------------------

\* the amount is not checked
ValidationErrorsDateOnly(date, amount) ==
  IF ~Truthy(date) THEN "Date" ELSE ""

\* the names of the required fields that are missing, joined by ", "
ValidationErrors(date, amount) ==
  CASE ~Truthy(date) /\ ~GtZero(amount) -> "Date, Amount"
    [] ~Truthy(date) -> "Date"
    [] ~GtZero(amount) -> "Amount"
    [] OTHER -> ""

\* the status of the response is not looked at
ResponseOkAnyStatus(f) == TRUE

\* res.ok
ResponseOk(f) == ResOk(f)

\* the message of the error thrown for a failed fetch
FailureMessage(f, fallback, fallbackThrown) ==
  IF f.st = "rejected" THEN OrElse(f.error, fallbackThrown)
  ELSE OrElse(f.error, fallback)

onAddIncome ==
  /\ mounted
  /\ ~isAddingIncome
  /\ LET date == Trim(incomeForm.date)
         desc == Trim(incomeForm.desc)
         amount == MathRound(FormNumber(incomeForm.amount))
         errors == ValidationErrors(date, amount)
         row == IncomeRow(uid(nextUid), date, OrElse(desc, "Income"), amount,
                          Trim(incomeForm.notes))
     IN IF errors # ""
        THEN /\ ev' = Toasted("onAddIncome", Toast("Please fill in", errors, "error"))
             /\ UNCHANGED <<isAddingIncome, addInc, nextUid>>
        ELSE /\ nextUid <= MaxUid
             /\ isAddingIncome' = TRUE
             /\ addInc' = Call(TRUE, row, "income", Pending)
             /\ nextUid' = nextUid + 1
             /\ ev' = Did("onAddIncome")
  /\ resp' = NoResp
  /\ UNCHANGED <<storeVars, income, expenses, categories, incomeForm,
                 expenseForm, isLoadingData, isAddingExpense, deletingId,
                 load, addExp, dels>>
  /\ RateIdle
  /\ Rendered

\* the route handles the POST
ServePostIncome ==
  /\ addInc.busy /\ addInc.fetch.st = "pending"
  /\ \E session \in Sessions :
       LET r == IncomePOST(session, IncomeBody(addInc.row), incomeTbl)
       IN /\ incomeTbl' = r.tbl
          /\ resp' = HandledBody("income", "POST", session, IncomeBody(addInc.row), r)
          /\ addInc' = [addInc EXCEPT !.fetch = Answered(r)]
  /\ ev' = Did("")
  /\ UNCHANGED <<expensesTbl, pageVars, load, addExp, dels, nextUid>>
  /\ RateIdle
  /\ Rendered

\* the fetch rejects: the request never reached the route
RejectPostIncome ==
  /\ addInc.busy /\ addInc.fetch.st = "pending"
  /\ addInc' = [addInc EXCEPT !.fetch = Rejected]
  /\ ev' = Did("")
  /\ resp' = NoResp
  /\ UNCHANGED <<storeVars, pageVars, load, addExp, dels, nextUid>>
  /\ RateIdle
  /\ Rendered

\* onAddIncome after its await
onAddIncomeSettled ==
  /\ mounted
  /\ addInc.busy /\ addInc.fetch.st # "pending"
  /\ IF ResponseOk(addInc.fetch)
     THEN /\ income' = Append(income, addInc.row)
          /\ incomeForm' = IncomeForm(incomeForm.date, "", "", "")
          /\ ev' = Toasted("onAddIncome/settled", Toast("Income added", "", "success"))
     ELSE /\ ev' = Toasted("onAddIncome/settled",
                     Toast(FailureMessage(addInc.fetch, "Failed to save income",
                                          "Failed to save income to database."),
                           "", "error"))
          /\ UNCHANGED <<income, incomeForm>>
  /\ isAddingIncome' = FALSE
  /\ addInc' = Idle
  /\ resp' = NoResp
  /\ UNCHANGED <<storeVars, expenses, categories, expenseForm, isLoadingData,
                 isAddingExpense, deletingId, load, addExp, dels, nextUid>>
  /\ RateIdle
  /\ Rendered

onAddExpense ==
  /\ mounted
  /\ ~isAddingExpense
  /\ LET date == Trim(expenseForm.date)
         category == Trim(expenseForm.category)
         desc == Trim(expenseForm.desc)
         amount == MathRound(FormNumber(expenseForm.amount))
         errors == ValidationErrors(date, amount)
         row == ExpenseRow(uid(nextUid), date, OrElse(category, "Other"),
                           OrElse(desc, "Expense"), amount,
                           Trim(expenseForm.notes))
     IN IF errors # ""
        THEN /\ ev' = Toasted("onAddExpense", Toast("Please fill in", errors, "error"))
             /\ UNCHANGED <<isAddingExpense, addExp, nextUid>>
        ELSE /\ nextUid <= MaxUid
             /\ isAddingExpense' = TRUE
             /\ addExp' = Call(TRUE, row, "expense", Pending)
             /\ nextUid' = nextUid + 1
             /\ ev' = Did("onAddExpense")
  /\ resp' = NoResp
  /\ UNCHANGED <<storeVars, income, expenses, categories, incomeForm,
                 expenseForm, isLoadingData, isAddingIncome, deletingId,
                 load, addInc, dels>>
  /\ RateIdle
  /\ Rendered

ServePostExpense ==
  /\ addExp.busy /\ addExp.fetch.st = "pending"
  /\ \E session \in Sessions :
       LET r == ExpensesPOST(session, ExpenseBody(addExp.row), expensesTbl)
       IN /\ expensesTbl' = r.tbl
          /\ resp' = HandledBody("expenses", "POST", session,
                                 ExpenseBody(addExp.row), r)
          /\ addExp' = [addExp EXCEPT !.fetch = Answered(r)]
  /\ ev' = Did("")
  /\ UNCHANGED <<incomeTbl, pageVars, load, addInc, dels, nextUid>>
  /\ RateIdle
  /\ Rendered

RejectPostExpense ==
  /\ addExp.busy /\ addExp.fetch.st = "pending"
  /\ addExp' = [addExp EXCEPT !.fetch = Rejected]
  /\ ev' = Did("")
  /\ resp' = NoResp
  /\ UNCHANGED <<storeVars, pageVars, load, addInc, dels, nextUid>>
  /\ RateIdle
  /\ Rendered

onAddExpenseSettled ==
  /\ mounted
  /\ addExp.busy /\ addExp.fetch.st # "pending"
  /\ IF ResponseOk(addExp.fetch)
     THEN /\ expenses' = Append(expenses, addExp.row)
          /\ expenseForm' = ExpenseForm(expenseForm.date, "", "", "", "")
          /\ ev' = Toasted("onAddExpense/settled", Toast("Expense added", "", "success"))
     ELSE /\ ev' = Toasted("onAddExpense/settled",
                     Toast(FailureMessage(addExp.fetch, "Failed to save expense",
                                          "Failed to save expense to database."),
                           "", "error"))
          /\ UNCHANGED <<expenses, expenseForm>>
  /\ isAddingExpense' = FALSE
  /\ addExp' = Idle
  /\ resp' = NoResp
  /\ UNCHANGED <<storeVars, income, categories, incomeForm, isLoadingData,
                 isAddingIncome, deletingId, load, addInc, dels, nextUid>>
  /\ RateIdle
  /\ Rendered

\* ---- delete -------------------------------------------------------------

\* the answer to the confirmation is not looked at
DeleteConfirmedAnyAnswer(ok) == TRUE

\* window.confirm answered OK
DeleteConfirmed(ok) == ok

\* the answer to the confirmation of an import is not looked at
ImportConfirmedAnyAnswer(ok) == TRUE

ImportConfirmed(ok) == ok
ClearConfirmed(ok) == ok

WithoutId(rows, id) ==
  LET Keep(r) == r.id # id
  IN SelectSeq(rows, Keep)

onDelete ==
  /\ mounted
  /\ ~isLoadingData
  /\ \E type \in {"income", "expense"}, ok \in BOOLEAN :
       LET rows == IF type = "income" THEN income ELSE expenses
       IN \E k \in 1..Len(rows) :
            /\ deletingId # rows[k].id
            /\ IF ~DeleteConfirmed(ok)
               THEN UNCHANGED <<deletingId, dels>>
               ELSE /\ Len(dels) < MaxDeletes
                    /\ deletingId' = rows[k].id
                    /\ dels' = Append(dels, Call(TRUE, [NoRow EXCEPT !.id = rows[k].id],
                                                 type, Pending))
            /\ ev' = Ev("onDelete", NoDoc, NoToast, ConfirmDelete, ok)
  /\ resp' = NoResp
  /\ UNCHANGED <<storeVars, income, expenses, categories, incomeForm,
                 expenseForm, isLoadingData, isAddingIncome, isAddingExpense,
                 load, addInc, addExp, nextUid>>
  /\ RateIdle
  /\ Rendered

\* the route handles DELETE ?id=...
ServeDelete ==
  \E k \in 1..Len(dels), session \in Sessions :
    /\ dels[k].fetch.st = "pending"
    /\ LET id == dels[k].row.id
           r == IF dels[k].type = "income"
                THEN IncomeDELETE(session, id, incomeTbl)
                ELSE ExpensesDELETE(session, id, expensesTbl)
       IN /\ IF dels[k].type = "income"
             THEN incomeTbl' = r.tbl /\ UNCHANGED expensesTbl
             ELSE expensesTbl' = r.tbl /\ UNCHANGED incomeTbl
          /\ resp' = Handled(IF dels[k].type = "income" THEN "income" ELSE "expenses",
                             "DELETE", session, id, r)
          /\ dels' = [dels EXCEPT ![k].fetch = Answered(r)]
    /\ ev' = Did("")
    /\ UNCHANGED <<pageVars, load, addInc, addExp, nextUid>>
  /\ RateIdle
  /\ Rendered

RejectDelete ==
  \E k \in 1..Len(dels) :
    /\ dels[k].fetch.st = "pending"
    /\ dels' = [dels EXCEPT ![k].fetch = Rejected]
    /\ ev' = Did("")
    /\ resp' = NoResp
    /\ UNCHANGED <<storeVars, pageVars, load, addInc, addExp, nextUid>>
  /\ RateIdle
  /\ Rendered

\* onDelete after its await
onDeleteSettled ==
  /\ mounted
  /\ \E k \in 1..Len(dels) :
      /\ dels[k].fetch.st # "pending"
      /\ IF ResponseOk(dels[k].fetch)
         THEN /\ IF dels[k].type = "income"
                 THEN income' = WithoutId(income, dels[k].row.id) /\ UNCHANGED expenses
                 ELSE expenses' = WithoutId(expenses, dels[k].row.id) /\ UNCHANGED income
              /\ ev' = Toasted("onDelete/settled", Toast("Record deleted", "", "success"))
         ELSE /\ ev' = Toasted("onDelete/settled",
                         Toast(FailureMessage(dels[k].fetch, "Failed to delete record",
                                              "Failed to delete record from database."),
                               "", "error"))
              /\ UNCHANGED <<income, expenses>>
      /\ deletingId' = Null
      /\ dels' = RemoveAt(dels, k)
      /\ resp' = NoResp
      /\ UNCHANGED <<storeVars, categories, incomeForm, expenseForm, isLoadingData,
                     isAddingIncome, isAddingExpense, load, addInc, addExp, nextUid>>
  /\ RateIdle
  /\ Rendered

\* ---- categories --------------------------------------------------------

onAddCategory ==
  /\ mounted
  /\ \E input \in PromptInputs :
       LET name == IF input = Null THEN Null ELSE Trim(input)
           Same(c) == ToLowerCase(c) = ToLowerCase(name)
       IN IF ~Truthy(name)
          THEN /\ ev' = Did("onAddCategory")
               /\ UNCHANGED <<categories, expenseForm>>
          ELSE IF \E k \in 1..Len(categories) : Same(categories[k])
          THEN /\ ev' = Toasted("onAddCategory",
                                Toast("Category already exists", "", "error"))
               /\ UNCHANGED <<categories, expenseForm>>
          ELSE /\ categories' = Append(categories, name)
               /\ expenseForm' = [expenseForm EXCEPT !.category = name]
               /\ ev' = Toasted("onAddCategory", Toast("Category added", "", "success"))
  /\ resp' = NoResp
  /\ UNCHANGED <<storeVars, income, expenses, incomeForm, isLoadingData,
                 isAddingIncome, isAddingExpense, deletingId, callVars, nextUid>>
  /\ RateIdle
  /\ Rendered

\* ---- export, import, clear ---------------------------------------------

exportJSON ==
  /\ mounted
  /\ ev' = Ev("exportJSON", ExportDoc(income, expenses, categories),
              Toast("Exported JSON downloaded", "", "success"), NoConfirm, FALSE)
  /\ resp' = NoResp
  /\ UNCHANGED <<storeVars, pageVars, callVars, nextUid>>
  /\ RateIdle
  /\ Rendered

File(readable, doc) == [readable |-> readable, doc |-> doc]

RawIncome(id, date, amount) == IncomeRow(id, date, Null, amount, Null)
RawExpense(id, date, category, amount) ==
  ExpenseRow(id, date, category, Null, amount, Null)

\* files the user may pick, besides the export of the current ledger
Files ==
  {File(FALSE, NoDoc),
   File(TRUE, Doc(FALSE, FALSE, Missing, Missing, Missing)),
   File(TRUE, Doc(TRUE, FALSE, Missing, Missing, Missing)),
   File(TRUE, Doc(TRUE, TRUE, Missing, List(<<>>), Missing)),
   File(TRUE, Doc(TRUE, TRUE, List(<<RawIncome("a", "d1", Num(70))>>),
                  NotAList, Missing)),
   File(TRUE, Doc(TRUE, TRUE,
                  List(<<RawIncome("a", "d1", Num(70)), RawIncome("a", Null, Num(0))>>),
                  List(<<RawExpense(Null, "d1", Null, Num(-50)),
                         RawExpense("b", "d2", "Gym", StrNum)>>),
                  List(<<"Gym", "Gym">>))),
   File(TRUE, Doc(TRUE, TRUE, List(<<>>), List(<<>>), List(<<"Rent">>))),
   File(TRUE, Doc(TRUE, TRUE, List(<<>>),
                  List(<<RawExpense("c", "d1", Null, Num(20))>>), Missing)),
   File(TRUE, Doc(TRUE, TRUE, List(<<>>),
                  List(<<RawExpense("c", "d1", "Gym", Num(20))>>), List(<<>>)))}

onFilePicked ==
  /\ mounted
  /\ \E f \in Files \cup {File(TRUE, ExportDoc(income, expenses, categories))},
        ok \in BOOLEAN :
       LET doc == f.doc
           inc == ImportIncome(doc.income.items, nextUid)
           exp == ImportExpenses(doc.expenses.items, inc.k)
           cat == ImportCategories(doc.categories)
       IN IF ~f.readable
          THEN /\ ev' = Ev("onFilePicked", doc,
                           Toast("Failed to read file.", "", "error"), NoConfirm, FALSE)
               /\ UNCHANGED <<income, expenses, categories, nextUid>>
          ELSE IF ~doc.json
          THEN /\ ev' = Ev("onFilePicked", doc,
                           Toast("Import failed", "Unexpected token", "error"),
                           NoConfirm, FALSE)
               /\ UNCHANGED <<income, expenses, categories, nextUid>>
          ELSE IF ~ValidDoc(doc)
          THEN /\ ev' = Ev("onFilePicked", doc,
                           Toast("Import failed",
                                 "Invalid format: Missing income/expenses arrays",
                                 "error"),
                           NoConfirm, FALSE)
               /\ UNCHANGED <<income, expenses, categories, nextUid>>
          ELSE IF ~ImportConfirmed(ok)
          THEN /\ ev' = Ev("onFilePicked", doc, NoToast, ConfirmImport, ok)
               /\ UNCHANGED <<income, expenses, categories, nextUid>>
          ELSE IF ~(doc.obj /\ IsArray(doc.income) /\ IsArray(doc.expenses))
          THEN \* .map of a value that is no array throws a TypeError
               /\ ev' = Ev("onFilePicked", doc,
                           Toast("Import failed", "map is not a function", "error"),
                           ConfirmImport, ok)
               /\ UNCHANGED <<income, expenses, categories, nextUid>>
          ELSE /\ exp.k <= MaxUid + 1
               /\ income' = inc.rows
               /\ expenses' = exp.rows
               /\ categories' = Dedup(cat \o CategoriesOf(exp.rows))
               /\ nextUid' = exp.k
               /\ ev' = Ev("onFilePicked", doc,
                           Toast("Import successful", "", "success"),
                           ConfirmImport, ok)
  /\ resp' = NoResp
  /\ UNCHANGED <<storeVars, incomeForm, expenseForm, isLoadingData,
                 isAddingIncome, isAddingExpense, deletingId, callVars>>
  /\ RateIdle
  /\ Rendered

clearAll ==
  /\ mounted
  /\ \E ok \in BOOLEAN :
       IF ~ClearConfirmed(ok)
       THEN /\ ev' = Ev("clearAll", NoDoc, NoToast, ConfirmClear, ok)
            /\ UNCHANGED <<income, expenses, categories>>
       ELSE /\ income' = <<>>
            /\ expenses' = <<>>
            /\ categories' = DEFAULT_CATEGORIES
            /\ ev' = Ev("clearAll", NoDoc, Toast("All data cleared", "", "success"),
                        ConfirmClear, ok)
  /\ resp' = NoResp
  /\ UNCHANGED <<storeVars, incomeForm, expenseForm, isLoadingData,
                 isAddingIncome, isAddingExpense, deletingId, callVars, nextUid>>
  /\ RateIdle
  /\ Rendered

\* ---- loadData -----------------------------------------------------------

\* what fetch('/api/categories') may answer, as loadData tells the answers
\* apart: ok with a list of named categories, or not ok
CategoriesGET ==
  {Fetch("answered", 200, <<>>, ""),
   Fetch("answered", 200, <<[name |-> "Gym"], [name |-> "Pets"]>>, ""),
   Fetch("answered", 500, <<>>, "Failed to fetch categories")}

ServeGetIncome ==
  /\ ~load.done /\ load.income.st = "pending"
  /\ \E session \in Sessions :
       LET r == IncomeGET(session, incomeTbl)
       IN /\ incomeTbl' = r.tbl
          /\ resp' = Handled("income", "GET", session, Null, r)
          /\ load' = [load EXCEPT !.income = Answered(r)]
  /\ ev' = Did("")
  /\ UNCHANGED <<expensesTbl, pageVars, addInc, addExp, dels, nextUid>>
  /\ RateIdle
  /\ Rendered

ServeGetExpenses ==
  /\ ~load.done /\ load.expenses.st = "pending"
  /\ \E session \in Sessions :
       LET r == ExpensesGET(session, expensesTbl)
       IN /\ expensesTbl' = r.tbl
          /\ resp' = Handled("expenses", "GET", session, Null, r)
          /\ load' = [load EXCEPT !.expenses = Answered(r)]
  /\ ev' = Did("")
  /\ UNCHANGED <<incomeTbl, pageVars, addInc, addExp, dels, nextUid>>
  /\ RateIdle
  /\ Rendered

ServeGetCategories ==
  /\ ~load.done /\ load.categories.st = "pending"
  /\ \E f \in CategoriesGET : load' = [load EXCEPT !.categories = f]
  /\ ev' = Did("")
  /\ resp' = NoResp
  /\ UNCHANGED <<storeVars, pageVars, addInc, addExp, dels, nextUid>>
  /\ RateIdle
  /\ Rendered

RejectGet ==
  /\ ~load.done
  /\ \E which \in {"income", "expenses", "categories"} :
       /\ load[which].st = "pending"
       /\ load' = [load EXCEPT ![which] = Rejected]
  /\ ev' = Did("")
  /\ resp' = NoResp
  /\ UNCHANGED <<storeVars, pageVars, addInc, addExp, dels, nextUid>>
  /\ RateIdle
  /\ Rendered

\* mutant: Promise.all never settles when a fetch rejects
AllSettledWhenAnswered(l) ==
  \A which \in {"income", "expenses", "categories"} : l[which].st = "answered"

\* Promise.all: rejected once one fetch is, fulfilled once all three are
AllSettled(l) ==
  \/ \E which \in {"income", "expenses", "categories"} : l[which].st = "rejected"
  \/ \A which \in {"income", "expenses", "categories"} : l[which].st = "answered"

\* loadData after its await
loadDataSettled ==
  /\ ~load.done
  /\ AllSettled(load)
  /\ LET thrown == \/ \E which \in {"income", "expenses", "categories"} :
                         load[which].st = "rejected"
                   \/ ~ResOk(load.income)
                   \/ ~ResOk(load.expenses)
         inc == <<>> \o [k \in 1..Len(load.income.rows) |-> LoadedIncome(load.income.rows[k])]
         exp == <<>> \o [k \in 1..Len(load.expenses.rows) |-> LoadedExpense(load.expenses.rows[k])]
         categoriesData == IF ResOk(load.categories) THEN load.categories.rows ELSE <<>>
         dbCats == <<>> \o [k \in 1..Len(categoriesData) |-> categoriesData[k].name]
     IN IF Cancelled(mounted)
        THEN /\ ev' = Did("loadData/settled")
             /\ UNCHANGED <<income, expenses, categories, isLoadingData>>
        ELSE IF thrown
        THEN /\ ev' = Toasted("loadData/settled",
                        Toast("Failed to load data from server. Please refresh the page.",
                              "", "error"))
             /\ isLoadingData' = FALSE
             /\ UNCHANGED <<income, expenses, categories>>
        ELSE /\ income' = inc
             /\ expenses' = exp
             /\ categories' = LoadedCategories(dbCats, exp)
             /\ isLoadingData' = FALSE
             /\ ev' = Did("loadData/settled")
  /\ load' = [load EXCEPT !.done = TRUE]
  /\ resp' = NoResp
  /\ UNCHANGED <<storeVars, incomeForm, expenseForm, isAddingIncome,
                 isAddingExpense, deletingId, addInc, addExp, dels, nextUid>>
  /\ RateIdle
  /\ Rendered

\* ---- the exchange rate --------------------------------------------------

\* what the rate service may answer: res.ok, a body that parses, the USD
\* value of one KRW
RateResponses ==
  {RateResponse(TRUE, TRUE, Ratio(1, 1200)), RateResponse(TRUE, TRUE, Ratio(1, 1400)),
   RateResponse(TRUE, TRUE, Num(0)), RateResponse(TRUE, TRUE, Num(-10)),
   RateResponse(TRUE, TRUE, NaN), RateResponse(TRUE, TRUE, Inf),
   RateResponse(TRUE, FALSE, NaN), RateResponse(FALSE, TRUE, Ratio(1, 1200))}

\* the clock runs up to MaxHours hours after Clock0
MaxHours == 13
Later(t, hours) ==
  {u \in {Num(t.v + h * 10 * HourMs) : h \in hours} :
     u.v <= Clock0.v + MaxHours * 10 * HourMs}

\* the rate service answers
ServeRate ==
  /\ refresh.st = "pending"
  /\ \E res \in RateResponses : refresh' = Refresh("answered", res, refresh.attempts)
  /\ ev' = Did("")
  /\ resp' = NoResp
  /\ UNCHANGED <<storeVars, pageVars, callVars, nextUid, mounted, rate, storage,
                 now, conv>>
  /\ Rendered

\* the fetch of the rate rejects
RejectRate ==
  /\ refresh.st = "pending"
  /\ refresh' = Refresh("rejected", NoRateResponse, refresh.attempts)
  /\ ev' = Did("")
  /\ resp' = NoResp
  /\ UNCHANGED <<storeVars, pageVars, callVars, nextUid, mounted, rate, storage,
                 now, conv>>
  /\ Rendered

\* mutant: a failed refresh is tried again
AfterRefreshRetry(f) ==
  IF RefreshFails(f) THEN Refresh("pending", NoRateResponse, f.attempts + 1)
  ELSE Refresh("done", NoRateResponse, f.attempts)

\* refreshRate returns, having succeeded or failed: nothing calls it again
AfterRefresh(f) == Refresh("done", NoRateResponse, f.attempts)

\* refreshRate after its await, at time t
refreshRateSettled ==
  /\ refresh.st \in {"answered", "rejected"}
  /\ \E t \in Later(now, {0, 1}) :
       /\ now' = t
       /\ IF RefreshFails(refresh)
          THEN /\ ev' = IF Cancelled(mounted) THEN Did("refreshRate/settled")
                        ELSE Toasted("refreshRate/settled",
                               Toast("Unable to refresh exchange rate. Using the last known value.",
                                     "", "error"))
               /\ UNCHANGED <<rate, storage>>
          ELSE LET krwPerUsd == OneOver(refresh.res.usd)
               IN IF Cancelled(mounted)
                  THEN /\ ev' = Did("refreshRate/settled")
                       /\ UNCHANGED <<rate, storage>>
                  ELSE /\ rate' = krwPerUsd
                       /\ storage' = Storage(String(krwPerUsd), String(t))
                       /\ ev' = Did("refreshRate/settled")
  /\ refresh' = AfterRefresh(refresh)
  /\ resp' = NoResp
  /\ UNCHANGED <<storeVars, pageVars, callVars, nextUid, mounted, conv>>
  /\ Rendered

\* the page component unmounts: the cleanups of the effects run
unmount ==
  /\ mounted
  /\ mounted' = FALSE
  /\ ev' = Did("unmount")
  /\ resp' = NoResp
  /\ UNCHANGED <<storeVars, pageVars, callVars, nextUid, rateVars, conv>>
  /\ Rendered

\* the page is opened again at time t: a new mount, with what localStorage
\* holds; the requests of the page before are dropped with it
reload ==
  /\ \E t \in Later(now, {0, 1, 13}) :
       /\ now' = t
       /\ refresh' = StartRefresh(storage, t)
  /\ mounted' = TRUE
  /\ rate' = SavedRate(storage, DefaultRate)
  /\ income' = <<>>
  /\ expenses' = <<>>
  /\ categories' = DEFAULT_CATEGORIES
  /\ incomeForm' = IncomeForm(Today, "", "", "")
  /\ expenseForm' = ExpenseForm(Today, "", "", "", "")
  /\ isLoadingData' = TRUE
  /\ isAddingIncome' = FALSE
  /\ isAddingExpense' = FALSE
  /\ deletingId' = Null
  /\ load' = Load(FALSE, Pending, Pending, Pending)
  /\ addInc' = Idle
  /\ addExp' = Idle
  /\ dels' = <<>>
  /\ totals' = Totals(<<>>, <<>>, rate')
  /\ breakdown' = ByCat(<<>>)
  /\ ev' = Did("mount")
  /\ resp' = NoResp
  /\ UNCHANGED <<storeVars, storage, nextUid, conv>>

\* a cell of the tables converts an amount: krwToUsd(krw, rate)
ConvKrw == {Num(0), Num(10), Num(-10), Num(12000), Num(-36000), NaN}
ConvRates ==
  {Num(10), Num(12000), Num(30), Num(0), Num(-10), Num(-12000), NaN, Inf, NegInf,
   NullNum, StrNum}

krwToUsdCall ==
  /\ \E krw \in ConvKrw, r \in ConvRates :
       conv' = [krw |-> krw, rate |-> r, usd |-> krwToUsd(krw, r)]
  /\ ev' = Did("krwToUsd")
  /\ resp' = NoResp
  /\ UNCHANGED <<storeVars, pageVars, callVars, nextUid, mounted, rateVars>>
  /\ Rendered

Next ==
  \/ setIncomeForm \/ setExpenseForm
  \/ onAddIncome \/ ServePostIncome \/ RejectPostIncome \/ onAddIncomeSettled
  \/ onAddExpense \/ ServePostExpense \/ RejectPostExpense \/ onAddExpenseSettled
  \/ onDelete \/ ServeDelete \/ RejectDelete \/ onDeleteSettled
  \/ onAddCategory
  \/ exportJSON \/ onFilePicked \/ clearAll
  \/ ServeGetIncome \/ ServeGetExpenses \/ ServeGetCategories \/ RejectGet
  \/ loadDataSettled
  \/ ServeRate \/ RejectRate \/ refreshRateSettled \/ unmount \/ reload
  \/ krwToUsdCall

Spec == Init /\ [][Next]_vars

\* Spec interleaves every handler of the page.  The specifications below
\* start from the same Init and each take the handlers of one feature, so
\* that each is explored to the end within the bounds.

\* The page while records are created: the forms and the two POST calls.
NextCreate ==
  \/ setIncomeForm \/ setExpenseForm
  \/ onAddIncome \/ ServePostIncome \/ RejectPostIncome \/ onAddIncomeSettled
  \/ onAddExpense \/ ServePostExpense \/ RejectPostExpense \/ onAddExpenseSettled

SpecCreate == Init /\ [][NextCreate]_vars

\* The page while the ledger is loaded and records are deleted.
NextDelete ==
  \/ ServeGetIncome \/ ServeGetExpenses \/ ServeGetCategories \/ RejectGet
  \/ loadDataSettled
  \/ onDelete \/ ServeDelete \/ RejectDelete \/ onDeleteSettled

SpecDelete == Init /\ [][NextDelete]_vars

\* The page while the ledger is exported, imported and cleared and
\* categories are added.
NextData == onAddCategory \/ exportJSON \/ onFilePicked \/ clearAll

SpecData == Init /\ [][NextData]_vars

\* The page while its totals change: the ledger of an earlier session is
\* loaded, the rate is refreshed, a file is imported and the ledger is
\* cleared.  It starts when the three requests of loadData have been
\* answered.
LedgerStore ==
  << <<StoredIncome("a", Me, "d1", Num(30000000))>>,
     <<StoredExpense("b", Me, "d1", "Food & Drinks", Num(12000000))>> >>

InitTotals ==
  /\ incomeTbl = LedgerStore[1]
  /\ expensesTbl = LedgerStore[2]
  /\ resp = NoResp
  /\ PageLoad(NoStorage, Clock0,
              Load(FALSE, Answered(IncomeGET(Me, LedgerStore[1])),
                   Answered(ExpensesGET(Me, LedgerStore[2])),
                   Fetch("answered", 200, <<>>, "")))

NextTotals ==
  \/ loadDataSettled
  \/ ServeRate \/ RejectRate \/ refreshRateSettled
  \/ onFilePicked \/ clearAll

SpecTotals == InitTotals /\ [][NextTotals]_vars

\* The page while expenses are added, categories are added and the ledger
\* is cleared.
NextExpenses ==
  \/ setExpenseForm
  \/ onAddExpense \/ ServePostExpense \/ RejectPostExpense \/ onAddExpenseSettled
  \/ onAddCategory \/ clearAll

SpecExpenses == Init /\ [][NextExpenses]_vars

\* The page of a browser that may hold a saved rate and a fetch timestamp,
\* while the rate is refreshed and the page is left and opened again.
StoredRates == {NoItem, String(Num(12000)), String(Num(0)), JunkText}
StoredTimestamps ==
  {NoItem, JunkText,
   String(Minus(Clock0, Ms(HourMs))),
   String(Minus(Clock0, RATE_MAX_AGE_MS)),
   String(Minus(Clock0, Plus(RATE_MAX_AGE_MS, Ms(1))))}

InitRate ==
  /\ incomeTbl = LedgerStore[1]
  /\ expensesTbl = LedgerStore[2]
  /\ resp = NoResp
  /\ \E r \in StoredRates, at \in StoredTimestamps :
       PageLoad(Storage(r, at), Clock0, Load(FALSE, Pending, Pending, Pending))

NextRate ==
  \/ ServeRate \/ RejectRate \/ refreshRateSettled
  \/ unmount \/ reload

SpecRate == InitRate /\ [][NextRate]_vars

\* The page while its two fetching effects run and the page is left.
InitUnmount ==
  /\ incomeTbl = LedgerStore[1]
  /\ expensesTbl = LedgerStore[2]
  /\ resp = NoResp
  /\ InitPage

NextUnmount ==
  \/ ServeGetIncome \/ ServeGetExpenses \/ ServeGetCategories \/ RejectGet
  \/ loadDataSettled
  \/ ServeRate \/ RejectRate \/ refreshRateSettled
  \/ unmount

SpecUnmount == InitUnmount /\ [][NextUnmount]_vars

\* The page while its categories change: the ledger is loaded, categories
\* are added, files are imported and the ledger is cleared.
\* It starts when the three requests of loadData have been answered.
InitCategories ==
  /\ incomeTbl = EarlierStore[1]
  /\ expensesTbl = EarlierStore[2]
  /\ resp = NoResp
  /\ \E f \in CategoriesGET :
       PageLoad(NoStorage, Clock0,
                Load(FALSE, Answered(IncomeGET(Me, EarlierStore[1])),
                     Answered(ExpensesGET(Me, EarlierStore[2])), f))

NextCategories == loadDataSettled \/ onAddCategory \/ onFilePicked \/ clearAll

SpecCategories == InitCategories /\ [][NextCategories]_vars

\* The page while income is added during the initial load.
NextLoadCreate ==
  \/ ServeGetIncome \/ ServeGetExpenses \/ ServeGetCategories \/ RejectGet
  \/ loadDataSettled
  \/ setIncomeForm
  \/ onAddIncome \/ ServePostIncome \/ RejectPostIncome \/ onAddIncomeSettled

SpecLoadCreate == Init /\ [][NextLoadCreate]_vars

\* The page while its requests are in flight: the load, the two creates and
\* a delete, with an amount already typed into one of the two forms, and the
\* unmount.  Every
\* request is answered or rejected in the end, and the handler that awaits
\* it resumes.
InitBusy ==
  /\ incomeTbl = <<>>
  /\ expensesTbl = <<>>
  /\ resp = NoResp
  /\ \E a \in {<<"1.5", "">>, <<"", "1.5">>} :
       PageWith(NoStorage, Clock0, Load(FALSE, Pending, Pending, Pending), a[1], a[2])

NextBusy ==
  \/ ServeGetIncome \/ ServeGetExpenses \/ ServeGetCategories \/ RejectGet
  \/ loadDataSettled
  \/ onAddIncome \/ ServePostIncome \/ RejectPostIncome \/ onAddIncomeSettled
  \/ onAddExpense \/ ServePostExpense \/ RejectPostExpense \/ onAddExpenseSettled
  \/ onDelete \/ ServeDelete \/ RejectDelete \/ onDeleteSettled
  \/ unmount

\* one chain per busy flag: the request completes, with an answer or a
\* rejection, and then the handler awaiting it resumes
LoadCompletes ==
  \/ ServeGetIncome \/ ServeGetExpenses \/ ServeGetCategories \/ RejectGet
  \/ loadDataSettled
AddIncomeCompletes == ServePostIncome \/ RejectPostIncome \/ onAddIncomeSettled
AddExpenseCompletes == ServePostExpense \/ RejectPostExpense \/ onAddExpenseSettled
DeleteCompletes == ServeDelete \/ RejectDelete \/ onDeleteSettled

RequestsComplete ==
  /\ WF_vars(LoadCompletes)
  /\ WF_vars(AddIncomeCompletes)
  /\ WF_vars(AddExpenseCompletes)
  /\ WF_vars(DeleteCompletes)

SpecBusy == InitBusy /\ [][NextBusy]_vars /\ RequestsComplete

\* The conversion alone, on every pair of an amount and a rate.
NextConvert == krwToUsdCall

SpecConvert == Init /\ [][NextConvert]_vars

(***************************************************************************)
(* Properties                                                              *)
(***************************************************************************)
OwnedBy(tbl, u) ==
  LET Own(r) == r.user_id = u
  IN SelectSeq(tbl, Own)

TableOf(route, inc, exp) == IF route = "income" THEN inc ELSE exp

\* C1: a request made with one user's session never changes the rows another
\* user owns, in set or in content, and no row of another user appears in
\* its response (GET lists, and the rows POST and PUT return).
C1_OwnerIsolation ==
  [][\A a \in Users :
       a # resp'.session =>
         /\ OwnedBy(incomeTbl', a) = OwnedBy(incomeTbl, a)
         /\ OwnedBy(expensesTbl', a) = OwnedBy(expensesTbl, a)
         /\ \A k \in 1..Len(resp'.rows) : resp'.rows[k].user_id # a]_vars

\* C1 witness: u2 asked to update or delete an id that u1 owns, got 404, and
\* u1's row is still stored.
C1_Witness ==
  /\ resp.session = "u2"
  /\ resp.method \in {"PUT", "DELETE"}
  /\ resp.status = 404
  /\ \E k \in 1..Len(TableOf(resp.route, incomeTbl, expensesTbl)) :
       LET row == TableOf(resp.route, incomeTbl, expensesTbl)[k]
       IN row.id = resp.arg /\ row.user_id = "u1"

\* a fetch that came back with a 2xx response
Succeeded(f) == f.st = "answered" /\ f.status \in 200..299

\* C2: submitting a create changes none of income, expenses and categories;
\* when the POST has come back, the row is appended to its list, and nothing
\* else changes, if the response is a 2xx; after a rejected fetch or any
\* other status the three are what they were and an error toast is shown.
C2_CreateOrdering ==
  [][/\ ev'.op \in {"onAddIncome", "onAddExpense"} =>
          UNCHANGED <<income, expenses, categories>>
     /\ ev'.op = "onAddIncome/settled" =>
          IF Succeeded(addInc.fetch)
          THEN /\ income' = Append(income, addInc.row)
               /\ UNCHANGED <<expenses, categories>>
          ELSE /\ UNCHANGED <<income, expenses, categories>>
               /\ ev'.toast.type = "error"
     /\ ev'.op = "onAddExpense/settled" =>
          IF Succeeded(addExp.fetch)
          THEN /\ expenses' = Append(expenses, addExp.row)
               /\ UNCHANGED <<income, categories>>
          ELSE /\ UNCHANGED <<income, expenses, categories>>
               /\ ev'.toast.type = "error"]_vars

\* C2 witness: a create of an expense has just failed with an error toast,
\* after a create of an income succeeded and was appended.
C2_Witness ==
  /\ ev.op = "onAddExpense/settled"
  /\ ev.toast.type = "error"
  /\ Len(income) = 1
  /\ Len(incomeTbl) > 0
  /\ expenses = <<>>

\* C3: a declined confirmation starts no DELETE call and changes neither the
\* page nor the store; a confirmed one changes neither list before the
\* response; when the response has come, the record is pruned from its list
\* if it is a 2xx, and after a rejected fetch or any other status both lists
\* are what they were.
C3_DeleteOrdering ==
  [][/\ (ev'.op = "onDelete" /\ ~ev'.ok) =>
          /\ UNCHANGED <<storeVars, pageVars, callVars>>
          /\ resp' = NoResp
     /\ (ev'.op = "onDelete" /\ ev'.ok) => UNCHANGED <<income, expenses>>
     /\ ev'.op = "onDelete/settled" =>
          \E k \in 1..Len(dels) :
            /\ dels' = RemoveAt(dels, k)
            /\ dels[k].fetch.st # "pending"
            /\ IF Succeeded(dels[k].fetch)
               THEN /\ income' = IF dels[k].type = "income"
                                 THEN WithoutId(income, dels[k].row.id)
                                 ELSE income
                    /\ expenses' = IF dels[k].type = "expense"
                                   THEN WithoutId(expenses, dels[k].row.id)
                                   ELSE expenses
               ELSE UNCHANGED <<income, expenses>>]_vars

\* C3 witness: a confirmed delete has just failed, and the loaded records
\* are all still listed.
C3_Witness ==
  /\ ev.op = "onDelete/settled"
  /\ ev.toast.type = "error"
  /\ Len(income) = 1
  /\ Len(expenses) = 2

\* C4: a DELETE by a signed-in caller with an id that names none of the
\* caller's rows (no such row, or a row of another user) answers 404 and
\* leaves both tables as they were.
C4_DeleteMissingIs404 ==
  [][(/\ resp'.method = "DELETE"
      /\ resp'.session # NoUser
      /\ Truthy(resp'.arg)
      /\ LET tbl == TableOf(resp'.route, incomeTbl, expensesTbl)
         IN ~\E k \in 1..Len(tbl) :
               tbl[k].id = resp'.arg /\ tbl[k].user_id = resp'.session)
     => (/\ resp'.status = 404
         /\ incomeTbl' = incomeTbl
         /\ expensesTbl' = expensesTbl)]_vars

\* C4 witness: a DELETE of an id owned by another user was answered 404
\* while the row is stored.
C4_Witness ==
  /\ resp.method = "DELETE"
  /\ resp.route = "expenses"
  /\ resp.status = 404
  /\ resp.session \in Users
  /\ \E k \in 1..Len(expensesTbl) :
       expensesTbl[k].id = resp.arg /\ expensesTbl[k].user_id # resp.session

\* C5: a request without a session user is answered 401 whatever its body or
\* query, issues no statement against the store and leaves both tables as
\* they were.
C5_UnauthenticatedIs401 ==
  [][(resp'.method # "" /\ resp'.session = NoUser)
     => (/\ resp'.status = 401
         /\ resp'.q = 0
         /\ incomeTbl' = incomeTbl
         /\ expensesTbl' = expensesTbl)]_vars

\* C5 witness: an unauthenticated request was answered 401 over a store that
\* holds rows in both tables.
C5_Witness ==
  /\ resp.session = NoUser
  /\ resp.method \in {"GET", "POST", "PUT", "DELETE"}
  /\ resp.status = 401
  /\ Len(incomeTbl) > 0
  /\ Len(expensesTbl) > 0

PageRows == Range(income) \cup Range(expenses)

DistinctIds(rows) ==
  \A j, k \in 1..Len(rows) : rows[j].id = rows[k].id => j = k

\* C6: a picked file that parses but whose income or expenses is missing or
\* is no list gets an "Import failed" error toast, no confirmation is asked,
\* and income, expenses and categories stay as they were.
C6_ImportRejected ==
  [][(/\ ev'.op = "onFilePicked"
      /\ ev'.doc.json
      /\ ~IsArray(ev'.doc.income) \/ ~IsArray(ev'.doc.expenses))
     => (/\ ev'.toast.message = "Import failed"
         /\ ev'.toast.type = "error"
         /\ ev'.confirm = NoConfirm
         /\ UNCHANGED <<income, expenses, categories>>)]_vars

\* C6 witness: a document whose expenses is no list was just refused while
\* the ledger holds records.
C6_Witness ==
  /\ ev.op = "onFilePicked"
  /\ ev.doc.json
  /\ IsArray(ev.doc.income)
  /\ ~IsArray(ev.doc.expenses)
  /\ ev.toast.message = "Import failed"
  /\ Len(income) > 0

\* C7: every record of the page's income and expenses lists, and every row
\* of the two tables, has amount > 0.
C7_AmountPositive ==
  /\ \A r \in PageRows : GtZero(r.amount)
  /\ \A r \in Range(incomeTbl) \cup Range(expensesTbl) : GtZero(r.amount)

\* C8: no two records of the income list share an id, no two records of the
\* expenses list share an id, and no two rows of a table share an id.
C8_UniqueIds ==
  /\ DistinctIds(income)
  /\ DistinctIds(expenses)
  /\ DistinctIds(incomeTbl)
  /\ DistinctIds(expensesTbl)

\* C9: a confirmed import of the document exportJSON produces from the
\* ledger leaves income, expenses and categories as they were.
C9_RoundTrip ==
  [][(/\ ev'.op = "onFilePicked"
      /\ ev'.doc = ExportDoc(income, expenses, categories)
      /\ ev'.confirm = ConfirmImport
      /\ ev'.ok)
     => UNCHANGED <<income, expenses, categories>>]_vars

\* C10: a submit whose trimmed date is blank or whose rounded amount is not
\* above zero starts no POST call, shows a "Please fill in" error toast and
\* leaves income, expenses and both forms as they were; a record that is
\* posted has a non-empty date and a positive integer amount.
C10_ValidationFirst ==
  [][/\ (/\ ev'.op = "onAddIncome"
         /\ \/ Trim(incomeForm.date) = ""
            \/ ~GtZero(MathRound(FormNumber(incomeForm.amount))))
        => (/\ ev'.toast.message = "Please fill in"
            /\ ev'.toast.type = "error"
            /\ resp' = NoResp
            /\ UNCHANGED <<storeVars, callVars, isAddingIncome, income,
                           expenses, incomeForm, expenseForm>>)
     /\ (/\ ev'.op = "onAddExpense"
         /\ \/ Trim(expenseForm.date) = ""
            \/ ~GtZero(MathRound(FormNumber(expenseForm.amount))))
        => (/\ ev'.toast.message = "Please fill in"
            /\ ev'.toast.type = "error"
            /\ resp' = NoResp
            /\ UNCHANGED <<storeVars, callVars, isAddingExpense, income,
                           expenses, incomeForm, expenseForm>>)
     /\ \A call \in {addInc', addExp'} :
          call.busy => /\ Truthy(call.row.date)
                       /\ GtZero(call.row.amount)
                       /\ IsInteger(call.row.amount)]_vars

\* C10 witness: a submit of an amount that rounds to zero was refused with
\* the toast and no call is under way.
C10_Witness ==
  /\ ev.op = "onAddIncome"
  /\ ev.toast.message = "Please fill in"
  /\ ev.toast.detail = "Amount"
  /\ incomeForm.amount = "0.4"
  /\ ~addInc.busy

\* the caller of the request in resp owns a row of tbl with the id it names
OwnsNamed(tbl, r) ==
  \E k \in 1..Len(tbl) : tbl[k].id = r.arg /\ tbl[k].user_id = r.session

\* tbl2 is tbl with exactly the row the request in r names changed, and
\* that row still has its id and its owner
OnlyNamedChanged(tbl, tbl2, r) ==
  /\ Len(tbl2) = Len(tbl)
  /\ \A k \in 1..Len(tbl) :
       /\ tbl2[k].id = tbl[k].id
       /\ tbl2[k].user_id = tbl[k].user_id
       /\ (tbl[k].id # r.arg \/ tbl[k].user_id # r.session) => tbl2[k] = tbl[k]

\* C19 as stated: a PUT by a signed-in caller that names none of the
\* caller's rows answers 404 and leaves both tables as they were; a PUT
\* that succeeds changes only the caller's row with that id.
C19_UpdateMissingIs404 ==
  [][(resp'.method = "PUT" /\ resp'.session # NoUser) =>
       LET tbl == TableOf(resp'.route, incomeTbl, expensesTbl)
           tbl2 == TableOf(resp'.route, incomeTbl', expensesTbl')
       IN /\ ~OwnsNamed(tbl, resp') =>
               (resp'.status = 404 /\ UNCHANGED <<incomeTbl, expensesTbl>>)
          /\ resp'.status = 200 => OnlyNamedChanged(tbl, tbl2, resp')]_vars

\* C19 amended: the 404 is the answer when the body is readable JSON and
\* its amount binds as a number; with an unreadable body or another amount
\* the answer is 500.  Either way a PUT that names none of the caller's rows
\* never succeeds and leaves both tables as they were, and a PUT that
\* succeeds changes only the caller's row with that id, in its own table.
C19_UpdateMissing ==
  [][(resp'.method = "PUT" /\ resp'.session # NoUser) =>
       LET tbl == TableOf(resp'.route, incomeTbl, expensesTbl)
           tbl2 == TableOf(resp'.route, incomeTbl', expensesTbl')
           readable == resp'.body.json /\ resp'.body.amount.t \in {"num", "null"}
       IN /\ ~OwnsNamed(tbl, resp') =>
               /\ resp'.status = IF readable THEN 404 ELSE 500
               /\ UNCHANGED <<incomeTbl, expensesTbl>>
          /\ resp'.status = 200 =>
               /\ OwnsNamed(tbl, resp')
               /\ OnlyNamedChanged(tbl, tbl2, resp')
               /\ TableOf(resp'.route, expensesTbl', incomeTbl')
                    = TableOf(resp'.route, expensesTbl, incomeTbl)
          /\ resp'.status # 200 => UNCHANGED <<incomeTbl, expensesTbl>>]_vars

\* C19 witness: a readable PUT naming an id that no stored row has was
\* answered 404 while the caller owns another row of the table.
C19_Witness ==
  /\ resp.method = "PUT"
  /\ resp.status = 404
  /\ resp.body.json
  /\ resp.session \in Users
  /\ LET tbl == TableOf(resp.route, incomeTbl, expensesTbl)
     IN /\ \A k \in 1..Len(tbl) : tbl[k].id # resp.arg
        /\ \E k \in 1..Len(tbl) : tbl[k].user_id = resp.session


\* usd * r = krw, for a finite usd and numbers krw and r > 0 in tenths
\* (both sides divided by the common divisor of krw and r)
IsQuotient(usd, krw, r) ==
  LET g == GCD(Abs(krw.v), r.v)
  IN IF usd.t = "ratio" THEN usd.n * (r.v \div g) = (krw.v \div g) * usd.d
     ELSE usd.t = "num" /\ usd.v * (r.v \div g) = 10 * (krw.v \div g)

\* C13: krwToUsd(krw, rate) is krw / rate for every finite rate > 0 (NaN for
\* an amount that is NaN), and 0 for every rate that is 0, negative, NaN,
\* infinite or no number, whatever the amount, negative amounts included.
C13_Convert ==
  conv # NoConv =>
    IF conv.rate.t = "num" /\ conv.rate.v > 0
    THEN IF conv.krw.t = "num" THEN IsQuotient(conv.usd, conv.krw, conv.rate)
         ELSE conv.usd = NaN
    ELSE conv.usd = Num(0)

\* C13 witness: a negative remaining amount of -3600 at rate 1200 converts to
\* -3.
C13_Witness ==
  /\ conv.krw = Num(-36000)
  /\ conv.rate = Num(12000)
  /\ conv.usd = Num(-30)

\* the import of a document that parsed and passed the structural check
ImportOfValidDoc(e) == e.op = "onFilePicked" /\ e.doc.json /\ ValidDoc(e.doc)

IdsOf(rows) == {rows[k].id : k \in 1..Len(rows)}

\* rows are the records of items, one for one and in order: the id and the
\* date of the document, or an id no record on the page had
RecordsOf(rows, items, oldIds) ==
  /\ Len(rows) = Len(items)
  /\ \A k \in 1..Len(items) :
       /\ rows[k].date = OrElse(items[k].date, "")
       /\ IF Truthy(items[k].id) THEN rows[k].id = items[k].id
          ELSE rows[k].id \notin oldIds

\* C16: the import of a structurally valid document asks the 'Import will
\* REPLACE your current data' confirmation; when the user declines, income,
\* expenses and categories are unchanged and no toast is emitted; when the
\* user confirms, income and expenses are exactly the document's records,
\* so that no earlier record survives.
C16_ImportConfirmation ==
  [][ImportOfValidDoc(ev') =>
       /\ ev'.confirm = ConfirmImport
       /\ ~ev'.ok => /\ UNCHANGED <<income, expenses, categories>>
                     /\ ev'.toast = NoToast
       /\ ev'.ok => /\ RecordsOf(income', ev'.doc.income.items,
                                 IdsOf(income) \cup IdsOf(expenses))
                    /\ RecordsOf(expenses', ev'.doc.expenses.items,
                                 IdsOf(income) \cup IdsOf(expenses))]_vars

\* C16 witness: the user confirmed the import of a document that has no
\* record and the one category Rent; the ledger is empty and the default
\* categories are gone.
C16_Witness ==
  /\ ImportOfValidDoc(ev)
  /\ ev.ok
  /\ ev.doc.income.items = <<>> /\ ev.doc.expenses.items = <<>>
  /\ income = <<>> /\ expenses = <<>>
  /\ categories = <<"Rent">>

\* an import the user confirmed and that went through
ConfirmedImport(e) ==
  ImportOfValidDoc(e) /\ e.ok /\ e.toast.message = "Import successful"

\* the categories on the expense records of a document, blank read as Other
ObservedCategories(items) ==
  {OrElse(items[k].category, "Other") : k \in 1..Len(items)}

\* C17 as stated: after a confirmed import, categories is the union of the
\* document's category list, or of the defaults when the document has no
\* category list, with the categories of the imported expenses.
C17_CategoriesUnionIfListed ==
  [][ConfirmedImport(ev') =>
       Range(categories') =
         (IF IsArray(ev'.doc.categories) THEN Range(ev'.doc.categories.items)
          ELSE Range(DEFAULT_CATEGORIES))
           \cup ObservedCategories(ev'.doc.expenses.items)]_vars

\* C17: after a confirmed import, categories is the union of the document's
\* category list, or of the defaults when the document has no category list
\* or an empty one, with the categories of the imported expenses, where a
\* blank category counts as Other.
C17_CategoriesUnion ==
  [][ConfirmedImport(ev') =>
       Range(categories') =
         (IF IsArray(ev'.doc.categories) /\ ev'.doc.categories.items # <<>>
          THEN Range(ev'.doc.categories.items)
          ELSE Range(DEFAULT_CATEGORIES))
           \cup ObservedCategories(ev'.doc.expenses.items)]_vars

\* C17 witness: a confirmed import of a document with an empty category list
\* and a Gym expense: categories holds the defaults and Gym.
C17_Witness ==
  /\ ConfirmedImport(ev)
  /\ ev.doc.categories = List(<<>>)
  /\ Range(categories) = Range(DEFAULT_CATEGORIES) \cup {"Gym"}

\* the sum, in tenths, of the amounts of rows that are numbers
RECURSIVE FoldAmounts(_)
FoldAmounts(rows) ==
  IF rows = <<>> THEN 0
  ELSE (IF Head(rows).amount.t = "num" THEN Head(rows).amount.v ELSE 0)
         + FoldAmounts(Tail(rows))

RECURSIVE SumByCat(_, _)
SumByCat(byCat, S) ==
  IF S = {} THEN 0
  ELSE LET c == CHOOSE x \in S : TRUE
       IN byCat[c].v + SumByCat(byCat, S \ {c})

\* C14: in every state of the page the amounts of the per-category breakdown
\* (byCat, computed from expenses) add up to totals.expenseKRW.
C14_BreakdownSum ==
  /\ \A c \in DOMAIN breakdown : breakdown[c].t = "num"
  /\ Num(SumByCat(breakdown, DOMAIN breakdown)) = totals.expenseKRW

\* C14 witness: three expenses in two categories.
C14_Witness ==
  /\ Len(expenses) = 3
  /\ Cardinality(DOMAIN breakdown) = 2
  /\ totals.expenseKRW = Num(60)

\* the sum of the percentages of the rows of the breakdown table
RECURSIVE SumPct(_)
SumPct(table) ==
  IF table = <<>> THEN Num(0)
  ELSE PlusExact(Head(table).pct, SumPct(Tail(table)))

\* C15: the percentages of the breakdown table add up to 100 when the total
\* expense is above 0, and each is 0 when the total expense is 0.
C15_PercentagesSum ==
  LET table == BreakdownTable(categories, breakdown, totals)
  IN IF totals.expenseKRW.v > 0 THEN SumPct(table) = Num(1000)
     ELSE \A k \in 1..Len(table) : table[k].pct = Num(0)

\* the stored fetch timestamp is a number
ValidTimestamp(st) == st.fetchedAt # NoItem /\ IsNum(st.fetchedAt.of)

\* more than 12 hours lie between the stored timestamp and t
OlderThan12h(st, t) == t.v - st.fetchedAt.of.v > 12 * 60 * 60 * 1000 * 10

\* a page load issues a fetch exactly when the policy asks for one
FetchIffStale(e, f, st, t) ==
  e.op = "mount" =>
    (f.st = "pending" <=> (~ValidTimestamp(st) \/ OlderThan12h(st, t)))

\* the answer of the rate service is one refreshRate accepts
GoodAnswer(f) ==
  /\ f.st = "answered" /\ f.res.ok /\ f.res.json
  /\ f.res.usd.t \in {"num", "ratio"} /\ Sign(f.res.usd) > 0

\* r * usd = 1 for a ratio usd
IsInverse(r, usd) == r.t = "num" /\ usd.t = "ratio" /\ r.v * usd.n = 10 * usd.d

\* C11: a page load issues a rate fetch if and only if no valid fetch
\* timestamp is stored or the stored one is more than 12 hours old (none at
\* exactly 12 hours or less), a fetch is issued by a page load only, and a
\* fetch that succeeds on the mounted page sets rate to the inverse of the
\* USD-per-KRW value and stores that rate and the time of the moment.
C11_RefreshPolicy ==
  /\ FetchIffStale(ev, refresh, storage, now)
  /\ [][/\ FetchIffStale(ev', refresh', storage', now')
        /\ (refresh'.st = "pending" /\ refresh.st # "pending") => ev'.op = "mount"
        /\ (ev'.op = "refreshRate/settled" /\ GoodAnswer(refresh) /\ mounted) =>
             /\ IsInverse(rate', refresh.res.usd)
             /\ storage' = Storage(String(rate'), String(now'))]_vars

\* C11 witness: a fetch answered 1/1400 at the start set and stored the rate
\* 1400, and the page opened again within 12 hours issues no fetch.
C11_Witness ==
  /\ ev.op = "mount"
  /\ refresh.st = "none"
  /\ rate = Num(14000)
  /\ storage = Storage(String(Num(14000)), String(Clock0))
  /\ now.v > Clock0.v

\* the fetch of refreshRate failed: rejected, not ok, no JSON, or a USD
\* value that is not a positive finite number
BadAnswer(f) == f.st = "rejected" \/ (f.st = "answered" /\ ~GoodAnswer(f))

RefreshErrorToast ==
  Toast("Unable to refresh exchange rate. Using the last known value.", "", "error")

\* C12: when the fetch of the rate fails on the mounted page (network error,
\* non-2xx answer, or a USD value that is not finite and positive), rate and
\* both stored items are unchanged and an error toast is emitted; a page
\* load makes at most one attempt, and a failed one is not repeated.
C12_FailureNotRetried ==
  [][/\ (ev'.op = "refreshRate/settled" /\ BadAnswer(refresh) /\ mounted) =>
          /\ UNCHANGED <<rate, storage>>
          /\ ev'.toast = RefreshErrorToast
          /\ refresh'.st = "done"
     /\ refresh'.attempts <= 1
     /\ refresh.st = "done" => (refresh'.st = "done" \/ ev'.op = "mount")]_vars

\* C12 witness: the page that had the saved rate 1200 and a stale timestamp
\* got a failed refresh: the error toast, the rate still 1200, one attempt.
C12_Witness ==
  /\ ev.op = "refreshRate/settled"
  /\ ev.toast = RefreshErrorToast
  /\ refresh = Refresh("done", NoRateResponse, 1)
  /\ rate = Num(12000)
  /\ storage.rate = String(Num(12000))

\* C18: when loadData or refreshRate resumes after the page unmounted, be it
\* with a success or a failure, income, expenses, categories, rate and
\* isLoadingData are unchanged, nothing is written to localStorage and no
\* toast is emitted.
C18_UnmountCancels ==
  [][(~mounted /\ ev'.op \in {"loadData/settled", "refreshRate/settled"}) =>
       /\ UNCHANGED <<income, expenses, categories, rate, isLoadingData, storage>>
       /\ ev'.toast = NoToast]_vars

\* C18 witness: both requests came back with data after the page unmounted,
\* a ledger and a rate of 1200: the page still holds no record, is still
\* loading and keeps the rate 1388, and localStorage is empty.
C18_Witness ==
  /\ ~mounted
  /\ load.done /\ ResOk(load.income) /\ ResOk(load.expenses)
  /\ Len(load.income.rows) = 1
  /\ refresh.st = "done"
  /\ income = <<>> /\ isLoadingData
  /\ rate = DefaultRate
  /\ storage = NoStorage

\* no name occurs twice in the list
NoDuplicate(cats) ==
  \A i \in 1..Len(cats), j \in 1..Len(cats) : i # j => cats[i] # cats[j]

\* C21: categories never holds the same name twice, whatever loadData,
\* onAddCategory, confirmed imports and clearAll did, and when onAddCategory
\* changes the list it appends one name that matches no category of the
\* list ignoring letter case.
C21_CategoriesDeduplicated ==
  /\ NoDuplicate(categories)
  /\ [][/\ NoDuplicate(categories')
        /\ (ev'.op = "onAddCategory" /\ categories' # categories) =>
             /\ Len(categories') = Len(categories) + 1
             /\ SubSeq(categories', 1, Len(categories)) = categories
             /\ \A k \in 1..Len(categories) :
                  ToLowerCase(categories[k]) # ToLowerCase(categories'[Len(categories')])]_vars

\* C21 witness: the load merged the defaults with the stored categories Gym
\* and Pets and the expense categories Gym and Other into ten names, and
\* onAddCategory then refused a name that is in the list already.
C21_Witness ==
  /\ load.done
  /\ Len(categories) = 10
  /\ "Gym" \in Range(categories)
  /\ ev.op = "onAddCategory"
  /\ ev.toast.message = "Category already exists"

\* the ids of the rows of tbl that user u owns
StoredIds(tbl, u) == IdsOf(OwnedBy(tbl, u))

\* C22: when loadData applies its result, every record of the page that the
\* store holds for the user (a create the server confirmed) is still on the
\* page.
C22_CreatedSurvivesLoad ==
  [][ev'.op = "loadData/settled" =>
       /\ (IdsOf(income) \cap StoredIds(incomeTbl, Me)) \subseteq IdsOf(income')
       /\ (IdsOf(expenses) \cap StoredIds(expensesTbl, Me)) \subseteq IdsOf(expenses')]_vars

\* C23: when every request completes and the handler awaiting it resumes, a
\* busy flag does not stay set on the mounted page: isAddingIncome and
\* isAddingExpense, once true, become false again, deletingId, once set,
\* becomes null again, and isLoadingData becomes false; a validation
\* failure, an error answer or a rejected fetch leaves none of them stuck.
\* (Each conjunct is "the flag is idle again and again", which is the same
\* as "busy leads to idle": [](busy => <>idle) is []<>idle.)
C23_BusyFlagsReturn ==
  /\ []<>(~isAddingIncome \/ ~mounted)
  /\ []<>(~isAddingExpense \/ ~mounted)
  /\ []<>(deletingId = Null \/ ~mounted)
  /\ []<>(~isLoadingData \/ ~mounted)

\* C23 witness: a create that the server refused and a load whose fetch
\* rejected have both resumed on the mounted page: no flag is set.
C23_Witness ==
  /\ mounted
  /\ ev.op = "onAddIncome/settled" /\ ev.toast.type = "error"
  /\ load.done /\ load.income.st = "rejected"
  /\ ~isAddingIncome /\ ~isAddingExpense /\ deletingId = Null /\ ~isLoadingData

====
